---- MODULE Spec2Model ----
(***************************************************************************)
(* Lifecycle and resource-ownership model of the critter harness:          *)
(*   - the Playwright `session` fixture (tests/fixtures/session.ts): the   *)
(*     resource ledger, the per-fixture provider cache and cleanup();      *)
(*   - the DeviceBroker (framework/core/DeviceBroker.ts);                  *)
(*   - the ProviderFactory cache (framework/core/ProviderFactory.ts);      *)
(*   - the ApiClient and the request contexts it owns;                     *)
(*   - the PlaywrightAdapter and the AppiumAdapter (framework/adapters).   *)
(* An `await` on which another call can observe or change shared state is  *)
(* a step boundary; what runs between two such awaits is one atomic action *)
(* (single-threaded cooperative scheduling). Awaits that touch only the    *)
(* awaiting object's own fields are folded into the step that follows.     *)
(***************************************************************************)
EXTENDS Integers, Sequences, FiniteSets, TLC

(* ------------------------------ bounds -------------------------------- *)
\* calls the test body makes on the session (api, apiSend, web, mobile)
MaxCalls == 2
\* explicit session.cleanup() calls made by the test body
MaxCleanups == 1
\* operations invoked on one DeviceBroker
MaxBrokerOps == 3
\* ProviderFactory.getProvider() calls
MaxGets == 3
\* verb calls (get, post, ...) made on one ApiClient
MaxVerbCalls == 3
\* dispose() calls made on one ApiClient
MaxDisposes == 2
\* calls (init, bind, navigate, execute, teardown) made on one adapter
MaxAdapterCalls == 3
\* getMobileDriver() and releaseDriver() calls made on providers
MaxProviderCalls == 2
\* calls made on one CapabilityBuilder and assignments to what it returned
MaxCapsOps == 4
\* chained calls and build() calls made on one RequestBuilder
MaxRequestCalls == 4

VARIABLES
  \* ---- session fixture (tests/fixtures/session.ts) ----
  phase,      \* "use": the test body runs; "final": the fixture's finally block
  resources,  \* the ledger: ids of the closures pushed and not yet popped
  closures,   \* every closure ever pushed, in push order (id = index)
  providers,  \* the Map<ProviderName, IDeviceProvider>, in insertion order
  provObjs,   \* every Provider instance constructed by makeProvider
  clients,    \* every ApiClient seen by the session
  webs,       \* every PlaywrightAdapter created by session.web
  mobiles,    \* every mobile acquisition: driver, AppiumAdapter, provider
  tasks,      \* the session.web / session.mobile calls, each with its position
  cleanups,   \* the session.cleanup calls, each with its position
  startLog,   \* history: the closures in the order cleanup invoked them
  \* ---- DeviceBroker (framework/core/DeviceBroker.ts) ----
  initialised, \* DeviceBroker.initialised
  provider,    \* DeviceBroker.provider: the calls it has received
  ops,         \* the operations invoked on the broker, each with its position
  overlapped,  \* history: an operation was invoked while another was suspended
  \* ---- ProviderFactory (framework/core/ProviderFactory.ts) ----
  instances,   \* ProviderFactory.instances: the cache, in insertion order
  made,        \* every Provider the factory constructed (id = index)
  gets,        \* history: the getProvider() calls, with what each returned
  \* ---- ApiClient ----
  ownedContexts, \* ApiClient._ownedContexts: the Set's entries in insertion order
  contexts,      \* every APIRequestContext the client has met (id = index)
  verbs,         \* the verb calls, each with its position
  disposes,      \* the dispose() calls, each with its position
  epoch,         \* history: how many times _ownedContexts.clear() has run
  justDisposed,  \* history: nothing was tracked since a dispose() last finished
  \* ---- adapters (framework/adapters) ----
  adapter,    \* the adapter object: its class and its private handle fields
  last,       \* history: the latest call made on the adapter, and its outcome
  adHist,     \* history: what has been called on the adapter so far
  nCalls,     \* how many calls have been made on the adapter
  \* ---- providers (framework/providers) ----
  acquired,   \* history: the getMobileDriver() calls and what they passed to remote()
  released,   \* history: the releaseDriver() calls and what they did
  \* ---- CapabilityBuilder (framework/capabilities) ----
  objects,    \* the objects made so far: own properties and whether frozen
  builderCaps, \* the object in the builder's `caps` field (0: no builder yet)
  results,    \* what build() and buildMutable() returned, in order
  capsLast,   \* history: the last call and the state it started from
  nCapsOps,   \* how many calls and assignments have been made
  \* ---- RequestBuilder (framework/api/builders) ----
  request,    \* the builder's fields (method "none": no builder yet)
  built,      \* what the last build() returned: method and the keys of options
  nRequestCalls \* how many chained calls and build() calls have been made

fxVars == <<phase, resources, closures, providers, provObjs, clients, webs,
            mobiles, tasks, cleanups, startLog>>

brVars == <<initialised, provider, ops, overlapped>>

pfVars == <<instances, made, gets>>

acVars == <<ownedContexts, contexts, verbs, disposes, epoch, justDisposed>>

adVars == <<adapter, last, adHist, nCalls>>

pvVars == <<acquired, released>>

cbVars == <<objects, builderCaps, results, capsLast, nCapsOps>>

rqVars == <<request, built, nRequestCalls>>

vars == <<fxVars, brVars, pfVars, acVars, adVars, pvVars, cbVars, rqVars>>

(* ------------------------------ helpers ------------------------------- *)
RemoveAt(s, i) == SubSeq(s, 1, i - 1) \o SubSeq(s, i + 1, Len(s))

Outcomes == {"ok", "threw"}

ProviderNames == {"local", "browserstack", "saucelabs"}

\* the provider names the test body passes to session.mobile
TestProviders == {"local", "browserstack"}

\* a call that has returned or rejected
Finished(op, how) == [op |-> op, pc |-> how, ref |-> 0, name |-> "", p |-> 0]

\* makeProvider: the class constructed for a provider name
makeProvider(name) ==
  CASE name = "browserstack" -> "BrowserStackProvider"
    [] name = "saucelabs"    -> "SauceLabsProvider"
    [] OTHER                 -> "LocalProvider"

\* providers.get(name): the cached instance, 0 when the key is absent
ProvidersGet(name) ==
  IF \E i \in 1..Len(providers) : providers[i].name = name
  THEN providers[CHOOSE i \in 1..Len(providers) : providers[i].name = name].inst
  ELSE 0

\* providers.set(name, p): a new key is appended, an existing key keeps its
\* place in the iteration order and has its value replaced
ProvidersSet(name, p) ==
  IF \E i \in 1..Len(providers) : providers[i].name = name
  THEN [i \in 1..Len(providers) |->
          IF providers[i].name = name THEN [name |-> name, inst |-> p]
          ELSE providers[i]]
  ELSE Append(providers, [name |-> name, inst |-> p])

Settled(k) == closures[k].st \in Outcomes

NumCalls == Len(clients) + Len(tasks)

\* the test body is running and not suspended in `await session.cleanup()`
\* (the test awaits its own cleanup call; web and mobile calls may be left
\* un-awaited or be started together, as with Promise.all)
TestBodyRuns ==
  /\ phase = "use"
  /\ \A c \in 1..Len(cleanups) : cleanups[c].pc \in {"done", "raised"}

NumExplicit == Cardinality({c \in 1..Len(cleanups) : ~cleanups[c].final})

(* ------------------------------- Init --------------------------------- *)
\* the fixture before `use(session)`: an empty ledger and an empty cache
fxInit ==
  /\ phase = "use"
  /\ resources = <<>>
  /\ closures = <<>>
  /\ providers = <<>>
  /\ provObjs = <<>>
  /\ clients = <<>>
  /\ webs = <<>>
  /\ mobiles = <<>>
  /\ tasks = <<>>
  /\ cleanups = <<>>
  /\ startLog = <<>>

(* -------------------- resources.push(closure) ------------------------- *)
Push(kind, ref) ==
  /\ closures' = Append(closures, [kind |-> kind, ref |-> ref, st |-> "ledger"])
  /\ resources' = Append(resources, Len(closures) + 1)

(* ---------------- session.api / session.apiSend ----------------------- *)
\* session.api(init): constructs a client and pushes its dispose closure
api ==
  /\ TestBodyRuns /\ NumCalls < MaxCalls
  /\ clients' = Append(clients, [owner |-> "session", disposeCalls |-> 0])
  /\ Push("api", Len(clients) + 1)
  /\ UNCHANGED <<phase, providers, provObjs, webs, mobiles, tasks, cleanups, startLog>>

\* variant: every client handed to apiSend goes through session.api
InstanceOfNothing(arg) == FALSE

\* `clientOrConfig instanceof ApiClient`
InstanceOfApiClient(arg) == arg = "instance"

\* session.apiSend(clientOrConfig, request): an ApiClient instance built by the
\* caller is used as it is, a configuration object goes through session.api
apiSend ==
  /\ TestBodyRuns /\ NumCalls < MaxCalls
  /\ \E arg \in {"instance", "config"} :
       /\ clients' = Append(clients,
             [owner |-> IF arg = "instance" THEN "caller" ELSE "session",
              disposeCalls |-> 0])
       /\ IF InstanceOfApiClient(arg)
          THEN UNCHANGED <<closures, resources>>
          ELSE Push("api", Len(clients) + 1)
  /\ UNCHANGED <<phase, providers, provObjs, webs, mobiles, tasks, cleanups, startLog>>

(* --------------------------- session.web ------------------------------ *)
\* session.web(opts): AdapterFactory.create('playwright'), then adapter.init()
\* is awaited: engine.launch, browser.newContext, context.newPage
web ==
  /\ TestBodyRuns /\ NumCalls < MaxCalls
  /\ webs' = Append(webs, [browser |-> "unset", context |-> "unset", page |-> "unset"])
  /\ tasks' = Append(tasks, [op |-> "web", pc |-> "awaitInit", ref |-> Len(webs) + 1,
                             name |-> "", p |-> 0])
  /\ UNCHANGED <<phase, resources, closures, providers, provObjs, clients,
                 mobiles, cleanups, startLog>>

\* PlaywrightAdapter.init: the handles the adapter holds when the first `n` of
\* launch, newContext, newPage have resolved (the three awaits touch only the
\* adapter, so they are taken in one step)
PlaywrightInit(n) ==
  [browser |-> IF n >= 1 THEN "open" ELSE "unset",
   context |-> IF n >= 2 THEN "open" ELSE "unset",
   page    |-> IF n >= 3 THEN "open" ELSE "unset"]

\* adapter.init() settles. When all three calls resolved, session.web resumes
\* and pushes the teardown closure; when one rejected, session.web rejects
\* with nothing pushed
WebInit(t) ==
  /\ tasks[t].op = "web" /\ tasks[t].pc = "awaitInit"
  /\ \E n \in 0..3 :
       /\ webs' = [webs EXCEPT ![tasks[t].ref] = PlaywrightInit(n)]
       /\ IF n = 3
          THEN /\ Push("web", tasks[t].ref)
               /\ tasks' = [tasks EXCEPT ![t] = Finished("web", "done")]
          ELSE /\ UNCHANGED <<closures, resources>>
               /\ tasks' = [tasks EXCEPT ![t] = Finished("web", "failed")]
  /\ UNCHANGED <<phase, providers, provObjs, clients, mobiles, cleanups, startLog>>

(* -------------------------- session.mobile ---------------------------- *)
\* session.mobile(caps, options) up to its first await: getOrInitProvider
\* reads the cache and, on a miss, constructs the Provider and calls p.init();
\* on a hit, provider.getMobileDriver(caps) is what the call ends up awaiting
mobile ==
  /\ TestBodyRuns /\ NumCalls < MaxCalls
  /\ \E name \in TestProviders :
       LET p == ProvidersGet(name) IN
       IF p = 0
       THEN /\ provObjs' = Append(provObjs,
                 [name |-> name, class |-> makeProvider(name),
                  initCalls |-> 1, cleanupCalls |-> 0, driverCalls |-> 0])
            /\ tasks' = Append(tasks, [op |-> "mobile", pc |-> "awaitInit", ref |-> 0,
                                       name |-> name, p |-> Len(provObjs) + 1])
       ELSE /\ provObjs' = [provObjs EXCEPT ![p].driverCalls = @ + 1]
            /\ tasks' = Append(tasks, [op |-> "mobile", pc |-> "awaitDriver", ref |-> 0,
                                       name |-> name, p |-> p])
  /\ UNCHANGED <<phase, resources, closures, providers, clients, webs, mobiles,
                 cleanups, startLog>>

\* getOrInitProvider resumes after `await p.init()`: providers.set(name, p);
\* session.mobile then calls provider.getMobileDriver(caps)
getOrInitProvider(t) ==
  /\ tasks[t].op = "mobile" /\ tasks[t].pc = "awaitInit"
  /\ providers' = ProvidersSet(tasks[t].name, tasks[t].p)
  /\ provObjs' = [provObjs EXCEPT ![tasks[t].p].driverCalls = @ + 1]
  /\ tasks' = [tasks EXCEPT ![t].pc = "awaitDriver"]
  /\ UNCHANGED <<phase, resources, closures, clients, webs, mobiles, cleanups,
                 startLog>>

\* remote(...) settles. On success: AdapterFactory.create('appium'),
\* adapter.bind(sessionInfo), resources.push(...); on failure session.mobile
\* rejects with nothing pushed
MobileDriver(t) ==
  /\ tasks[t].op = "mobile" /\ tasks[t].pc = "awaitDriver"
  /\ \E o \in Outcomes :
       IF o = "threw"
       THEN /\ tasks' = [tasks EXCEPT ![t] = Finished("mobile", "failed")]
            /\ UNCHANGED <<mobiles, closures, resources>>
       ELSE /\ mobiles' = Append(mobiles, [prov |-> tasks[t].p, deleteCalls |-> 0,
                                           bound |-> TRUE, tornDown |-> 0,
                                           released |-> 0])
            /\ Push("mobile", Len(mobiles) + 1)
            /\ tasks' = [tasks EXCEPT ![t] = Finished("mobile", "done")]
  /\ UNCHANGED <<phase, providers, provObjs, clients, webs, cleanups, startLog>>

(* ------------------------- teardown closures -------------------------- *)
\* PlaywrightAdapter.teardown: close() is called on the page, the context and
\* the browser the adapter holds, each in its own try/catch ("closed": close()
\* has been called on the handle)
PlaywrightTeardown(w) ==
  [browser |-> IF w.browser = "unset" THEN "unset" ELSE "closed",
   context |-> IF w.context = "unset" THEN "unset" ELSE "closed",
   page    |-> IF w.page = "unset" THEN "unset" ELSE "closed"]

\* variant: the closure of session.mobile with its two awaits exchanged
MobileClosureSwapped == <<"release", "teardown">>

\* the closure pushed by session.mobile:
\* `await adapter.teardown(); await provider.releaseDriver(sessionInfo.driver)`
MobileClosure == <<"teardown", "release">>

\* the statement of the mobile closure that follows `step`, "end" after the last
AfterStep(step) ==
  IF step = MobileClosure[1] THEN MobileClosure[2] ELSE "end"

\* mobile acquisition `mo` once the closure has called `step`:
\* adapter.teardown() awaits driver.deleteSession() (the adapter holds the
\* driver it was bound to); provider.releaseDriver(driver) awaits
\* driver.deleteSession()
MobileStep(mo, step) ==
  IF step = "teardown"
  THEN [mo EXCEPT !.tornDown = @ + 1,
                  !.deleteCalls = IF mo.bound THEN @ + 1 ELSE @]
  ELSE [mo EXCEPT !.released = @ + 1, !.deleteCalls = @ + 1]

\* fn(): the closure runs up to its first await
\*   api:    client.dispose()
\*   web:    adapter.teardown()
\*   mobile: adapter.teardown()
InvokeFn(k) ==
  LET cl == closures[k] IN
  CASE cl.kind = "api" ->
         /\ clients' = [clients EXCEPT ![cl.ref].disposeCalls = @ + 1]
         /\ closures' = [closures EXCEPT ![k].st = "dispose"]
         /\ UNCHANGED <<webs, mobiles>>
    [] cl.kind = "web" ->
         /\ closures' = [closures EXCEPT ![k].st = "teardown"]
         /\ UNCHANGED <<clients, webs, mobiles>>
    [] OTHER ->
         /\ mobiles' = [mobiles EXCEPT ![cl.ref] = MobileStep(@, MobileClosure[1])]
         /\ closures' = [closures EXCEPT ![k].st = MobileClosure[1]]
         /\ UNCHANGED <<clients, webs>>

\* client.dispose() settles: it raises an AggregateError when a context failed
ApiDisposeSettles(k) ==
  /\ closures[k].kind = "api" /\ closures[k].st = "dispose"
  /\ \E o \in Outcomes : closures' = [closures EXCEPT ![k].st = o]
  /\ UNCHANGED <<phase, resources, providers, provObjs, clients, webs, mobiles,
                 tasks, cleanups, startLog>>

\* PlaywrightAdapter.teardown settles: it never rejects
WebTeardownSettles(k) ==
  /\ closures[k].kind = "web" /\ closures[k].st = "teardown"
  /\ webs' = [webs EXCEPT ![closures[k].ref] = PlaywrightTeardown(@)]
  /\ closures' = [closures EXCEPT ![k].st = "ok"]
  /\ UNCHANGED <<phase, resources, providers, provObjs, clients, mobiles, tasks,
                 cleanups, startLog>>

\* the mobile closure goes on after the statement `step` has settled with
\* outcome o: a rejection rejects the closure, otherwise the next statement
\* is called, or the closure returns
MobileGoesOn(k, mo, step, o) ==
  IF o = "threw" THEN /\ closures' = [closures EXCEPT ![k].st = "threw"]
                      /\ mobiles' = [mobiles EXCEPT ![closures[k].ref] = mo]
  ELSE IF AfterStep(step) = "end"
       THEN /\ closures' = [closures EXCEPT ![k].st = "ok"]
            /\ mobiles' = [mobiles EXCEPT ![closures[k].ref] = mo]
       ELSE /\ closures' = [closures EXCEPT ![k].st = AfterStep(step)]
            /\ mobiles' = [mobiles EXCEPT ![closures[k].ref] =
                                             MobileStep(mo, AfterStep(step))]

\* AppiumAdapter.teardown resumes: the deleteSession error, if any, is caught
\* and the adapter drops its driver, so teardown never rejects; the closure
\* goes on to provider.releaseDriver(sessionInfo.driver)
MobileTeardownSettles(k) ==
  /\ closures[k].kind = "mobile" /\ closures[k].st = "teardown"
  /\ MobileGoesOn(k, [mobiles[closures[k].ref] EXCEPT !.bound = FALSE],
                  "teardown", "ok")
  /\ UNCHANGED <<phase, resources, providers, provObjs, clients, webs, tasks,
                 cleanups, startLog>>

\* provider.releaseDriver settles; its rejection rejects the closure
MobileReleaseSettles(k) ==
  /\ closures[k].kind = "mobile" /\ closures[k].st = "release"
  /\ \E o \in Outcomes : MobileGoesOn(k, mobiles[closures[k].ref], "release", o)
  /\ UNCHANGED <<phase, resources, providers, provObjs, clients, webs,
                 tasks, cleanups, startLog>>

(* -------------------------- session.cleanup --------------------------- *)
\* variant: resources.shift() in place of resources.pop()
PopIndexShift(res) == 1

\* resources.pop() takes the last element of the ledger
PopIndex(res) == Len(res)

\* `try { await fn() } catch { /* ignore */ }`
TeardownCaught(o) == TRUE

\* `try { await p.cleanup() } catch { /* ignore */ }`
ProviderCleanupCaught(o) == TRUE

\* the `for (const p of providers.values())` loop of cleanup call c, from its
\* next element on: calls p.cleanup(), or returns when the iterator is done
ProviderLoop(c, cl) ==
  /\ IF cl[c].pi < Len(providers)
     THEN /\ provObjs' = [provObjs EXCEPT
                            ![providers[cl[c].pi + 1].inst].cleanupCalls = @ + 1]
          /\ cleanups' = [cl EXCEPT ![c].pc = "awaitProv"]
     ELSE /\ cleanups' = [cl EXCEPT ![c].pc = "done"]
          /\ UNCHANGED provObjs
  /\ UNCHANGED <<resources, closures, clients, webs, mobiles, startLog>>

\* the `while (resources.length)` loop of cleanup call c, from its test on:
\* pops and invokes the next closure, or falls through to the provider loop
CleanupLoop(c, cl) ==
  IF Len(resources) > 0
  THEN LET k == resources[PopIndex(resources)] IN
       /\ resources' = RemoveAt(resources, PopIndex(resources))
       /\ InvokeFn(k)
       /\ startLog' = Append(startLog, [id |-> k, pushed |-> Len(closures), by |-> c])
       /\ cleanups' = [cl EXCEPT ![c].pc = "awaitFn", ![c].cur = k]
       /\ UNCHANGED provObjs
  ELSE ProviderLoop(c, cl)

\* a cleanup() call; snap is history: the closures pushed before the call
NewCleanup(final) ==
  [pc |-> "start", cur |-> 0, pi |-> 0, final |-> final, snap |-> Len(closures)]

\* the test body calls session.cleanup() itself
cleanup ==
  /\ TestBodyRuns /\ NumExplicit < MaxCleanups
  /\ CleanupLoop(Len(cleanups) + 1, Append(cleanups, NewCleanup(FALSE)))
  /\ UNCHANGED <<phase, providers, tasks>>

\* the test body returns: `finally { await session.cleanup() }`
FixtureFinally ==
  /\ TestBodyRuns
  /\ phase' = "final"
  /\ CleanupLoop(Len(cleanups) + 1, Append(cleanups, NewCleanup(TRUE)))
  /\ UNCHANGED <<providers, tasks>>

\* cleanup resumes after `await fn()` once the closure has settled
CleanupResume(c) ==
  /\ cleanups[c].pc = "awaitFn"
  /\ Settled(cleanups[c].cur)
  /\ IF TeardownCaught(closures[cleanups[c].cur].st)
     THEN CleanupLoop(c, cleanups)
     ELSE /\ cleanups' = [cleanups EXCEPT ![c].pc = "raised"]
          /\ UNCHANGED <<resources, closures, provObjs, clients, webs, mobiles,
                         startLog>>
  /\ UNCHANGED <<phase, providers, tasks>>

\* p.cleanup() settles and cleanup resumes with the next provider
CleanupProviderDone(c) ==
  /\ cleanups[c].pc = "awaitProv"
  /\ \E o \in Outcomes :
       IF ProviderCleanupCaught(o)
       THEN ProviderLoop(c, [cleanups EXCEPT ![c].pi = @ + 1])
       ELSE /\ cleanups' = [cleanups EXCEPT ![c].pc = "raised"]
            /\ UNCHANGED <<resources, closures, provObjs, clients, webs, mobiles,
                           startLog>>
  /\ UNCHANGED <<phase, providers, tasks>>

(* ============================ DeviceBroker ============================ *)
\* `new DeviceBroker()`: the provider comes from ProviderFactory, not initialised
brInit ==
  /\ initialised = FALSE
  /\ provider = [initCalls |-> 0, initDone |-> 0, driverCalls |-> 0,
                 cleanupCalls |-> 0, sessions |-> 0, releaseCalls |-> 0]
  /\ ops = <<>>
  /\ overlapped = FALSE

BrokerOps == {"getMobileAdapter", "getMobileDriver", "cleanup"}

Suspended(t) == ops[t].pc \notin {"done", "failed", "initFailed"}

\* an operation as it is invoked; inited, called, failsBefore and flagAt are
\* history: its ensureInit called provider.init(), it went on to its provider
\* call, how many init() calls had rejected when it was invoked, and the flag
\* at the moment its own init() rejected
Invoked(op, pc, inited) ==
  [op |-> op, pc |-> pc, inited |-> inited, called |-> ~inited,
   failsBefore |-> Cardinality({u \in 1..Len(ops) : ops[u].pc = "initFailed"}),
   flagAt |-> FALSE]

\* variant: ensureInit without its guard
NeedsInitAlways(flag) == TRUE

\* ensureInit: `if (!this.initialised)`
NeedsInit(flag) == ~flag

\* what an operation does once `await this.ensureInit()` has returned:
\* provider.getMobileDriver(options) or provider.cleanup()
AfterEnsureInit(op, prov) ==
  IF op = "cleanup"
  THEN [prov EXCEPT !.cleanupCalls = @ + 1]
  ELSE [prov EXCEPT !.driverCalls = @ + 1]

AwaitedCall(op) == IF op = "cleanup" THEN "awaitCleanup" ELSE "awaitDriver"

\* variant: `this.initialised = true` moved before `await this.provider.init()`
FlagWhileInitRunsSet(flag) == TRUE

\* ensureInit: the flag while `await this.provider.init()` is pending; it is
\* assigned only after the await
FlagWhileInitRuns(flag) == flag

\* getMobileAdapter / getMobileDriver / cleanup up to the first await that
\* suspends on the provider: ensureInit calls provider.init() when the flag
\* is not set, otherwise the operation goes on to its provider call
BrokerCall ==
  /\ Len(ops) < MaxBrokerOps
  /\ \E op \in BrokerOps :
       IF NeedsInit(initialised)
       THEN /\ provider' = [provider EXCEPT !.initCalls = @ + 1]
            /\ ops' = Append(ops, Invoked(op, "awaitInit", TRUE))
            /\ initialised' = FlagWhileInitRuns(initialised)
       ELSE /\ provider' = AfterEnsureInit(op, provider)
            /\ ops' = Append(ops, Invoked(op, AwaitedCall(op), FALSE))
            /\ UNCHANGED initialised
  /\ overlapped' = (overlapped \/ \E t \in 1..Len(ops) : Suspended(t))

\* `await this.provider.init()` settles. Resolved: initialised = true and the
\* operation goes on to its provider call. Rejected: ensureInit and the
\* operation reject with the error, the assignment after the await not being
\* reached
ensureInit(t) ==
  /\ ops[t].pc = "awaitInit"
  /\ \E o \in Outcomes :
       IF o = "ok"
       THEN /\ initialised' = TRUE
            /\ provider' = AfterEnsureInit(ops[t].op,
                                           [provider EXCEPT !.initDone = @ + 1])
            /\ ops' = [ops EXCEPT ![t].pc = AwaitedCall(ops[t].op),
                                  ![t].called = TRUE]
       ELSE /\ initialised' = initialised
            /\ ops' = [ops EXCEPT ![t].pc = "initFailed",
                                  ![t].flagAt = initialised']
            /\ UNCHANGED provider
  /\ UNCHANGED overlapped

\* provider.getMobileDriver settles; getMobileAdapter binds an AppiumAdapter
\* to the session before it returns
BrokerDriver(t) ==
  /\ ops[t].pc = "awaitDriver"
  /\ \E o \in Outcomes :
       IF o = "ok"
       THEN /\ ops' = [ops EXCEPT ![t].pc = "done"]
            /\ provider' = [provider EXCEPT !.sessions = @ + 1]
       ELSE /\ ops' = [ops EXCEPT ![t].pc = "failed"]
            /\ UNCHANGED provider
  /\ UNCHANGED <<initialised, overlapped>>

\* provider.cleanup() settles
BrokerCleanupDone(t) ==
  /\ ops[t].pc = "awaitCleanup"
  /\ ops' = [ops EXCEPT ![t].pc = "done"]
  /\ UNCHANGED <<initialised, provider, overlapped>>

\* DeviceBroker.releaseDriver(driver) on a session obtained earlier: delegates
\* to provider.releaseDriver without going through ensureInit
releaseDriver ==
  /\ provider.releaseCalls < provider.sessions
  /\ provider' = [provider EXCEPT !.releaseCalls = @ + 1]
  /\ UNCHANGED <<initialised, ops, overlapped>>

(* =========================== ProviderFactory ========================== *)
\* `private static instances = new Map()`
pfInit ==
  /\ instances = <<>>
  /\ made = <<>>
  /\ gets = <<>>

\* strings are sequences of characters
Str_local        == <<"l", "o", "c", "a", "l">>
Str_browserstack == <<"b", "r", "o", "w", "s", "e", "r", "s", "t", "a", "c", "k">>
Str_saucelabs    == <<"s", "a", "u", "c", "e", "l", "a", "b", "s">>
Str_sauce        == <<"s", "a", "u", "c", "e">>

\* the values config.provider takes: unset (the empty string is falsy too),
\* the known names in several letter cases, and unknown names
ConfiguredNames ==
  { <<>>,
    Str_local, <<"L", "o", "c", "a", "l">>, <<"L", "O", "C", "A", "L">>,
    Str_browserstack,
    <<"B", "r", "o", "w", "s", "e", "r", "S", "t", "a", "c", "k">>,
    Str_saucelabs, <<"S", "a", "u", "c", "e", "L", "a", "b", "s">>,
    Str_sauce, <<"S", "A", "U", "C", "E">>,
    <<"a", "w", "s">>, <<"A", "w", "s">> }

LowerChar(ch) ==
  CASE ch = "A" -> "a" [] ch = "B" -> "b" [] ch = "C" -> "c" [] ch = "D" -> "d"
    [] ch = "E" -> "e" [] ch = "I" -> "i" [] ch = "L" -> "l" [] ch = "N" -> "n"
    [] ch = "O" -> "o" [] ch = "R" -> "r" [] ch = "S" -> "s" [] ch = "T" -> "t"
    [] ch = "U" -> "u" [] ch = "V" -> "v" [] ch = "W" -> "w"
    [] OTHER -> ch

\* String.prototype.toLowerCase
toLowerCase(str) == [i \in 1..Len(str) |-> LowerChar(str[i])]

\* `(config.provider || "local")`
NameOrLocal(cfg) == IF cfg = <<>> THEN Str_local ELSE cfg

\* variant: the cache key without .toLowerCase()
providerNameAsWritten(cfg) == NameOrLocal(cfg)

\* `const providerName = (config.provider || "local").toLowerCase()`
providerName(cfg) == toLowerCase(NameOrLocal(cfg))

\* the `switch (providerName)`: the class constructed
ProviderClass(key) ==
  CASE key = Str_browserstack -> "BrowserStackProvider"
    [] key = Str_saucelabs    -> "SauceLabsProvider"
    [] key = Str_sauce        -> "SauceLabsProvider"
    [] OTHER                  -> "LocalProvider"

\* `public readonly name` of each Provider class
NameOf(class) ==
  CASE class = "BrowserStackProvider" -> Str_browserstack
    [] class = "SauceLabsProvider"    -> Str_saucelabs
    [] OTHER                          -> Str_local

\* ProviderFactory.instances.has(key)
InstancesHas(key) == \E i \in 1..Len(instances) : instances[i].key = key

\* ProviderFactory.instances.get(key)
InstancesGet(key) ==
  instances[CHOOSE i \in 1..Len(instances) : instances[i].key = key].inst

\* ProviderFactory.getProvider() under the configured name cfg
getProvider ==
  /\ Len(gets) < MaxGets
  /\ \E cfg \in ConfiguredNames :
       LET key == providerName(cfg) IN
       IF InstancesHas(key)
       THEN /\ gets' = Append(gets, [cfg |-> cfg, inst |-> InstancesGet(key),
                                     wrote |-> FALSE])
            /\ UNCHANGED <<instances, made>>
       ELSE /\ made' = Append(made, ProviderClass(key))
            /\ instances' = Append(instances, [key |-> key, inst |-> Len(made) + 1])
            /\ gets' = Append(gets, [cfg |-> cfg, inst |-> Len(made) + 1,
                                     wrote |-> TRUE])

(* ============================= ApiClient ============================== *)
\* `new ApiClient(init)`: nothing tracked. Context 1 is a context the caller
\* created with request.newContext() and owns
acInit ==
  /\ ownedContexts = <<>>
  /\ contexts = <<[by |-> "caller", disposeCalls |-> 0, epoch |-> 0]>>
  /\ verbs = <<>>
  /\ disposes = <<>>
  /\ epoch = 0
  /\ justDisposed = FALSE

\* the public verbs: each is `this.withContext(context, (ctx) => ctx.<verb>(...))`
Verbs == {"get", "post", "put", "delete", "patch", "head", "options"}

\* options.context: undefined (0) or the caller's context
SuppliedContexts == {0, 1}

\* the values held by a Set whose entry list is `s` (0: an emptied entry)
SetValues(s) == {s[i] : i \in 1..Len(s)} \ {0}

\* Set.prototype.add: a value already present is not added again
SetAdd(s, v) == IF v \in SetValues(s) THEN s ELSE Append(s, v)

\* Set.prototype.clear: every entry is emptied; live iterators keep their index
SetClear(s) == [i \in 1..Len(s) |-> 0]

\* the Set iterator's next(): the first non-empty entry after index i, or 0
SetNext(s, i) ==
  IF \E j \in (i + 1)..Len(s) : s[j] # 0
  THEN CHOOSE j \in (i + 1)..Len(s) : s[j] # 0 /\ \A k \in (i + 1)..(j - 1) : s[k] = 0
  ELSE 0

\* variant: _ownedContexts.add(context) outside the `if (!context)` block
TracksAlways(supplied) == TRUE

\* `if (!context) { context = await request.newContext(...);
\* this._ownedContexts.add(context) }`: only a context the client created
\* itself is tracked
Tracks(supplied) == supplied = 0

\* withContext once the context `c` to use is known
Track(c, supplied) ==
  /\ ownedContexts' = IF Tracks(supplied) THEN SetAdd(ownedContexts, c)
                      ELSE ownedContexts
  /\ justDisposed' = (justDisposed /\ ~Tracks(supplied))

\* client.<verb>(path, options): withContext up to its first await, either
\* request.newContext() or the request on the supplied context
verb ==
  /\ Len(verbs) < MaxVerbCalls
  /\ \E v \in Verbs, ctx \in SuppliedContexts :
       IF ctx = 0
       THEN /\ verbs' = Append(verbs, [pc |-> "newContext", ctx |-> 0])
            /\ UNCHANGED <<ownedContexts, justDisposed>>
       ELSE /\ verbs' = Append(verbs, [pc |-> "request", ctx |-> ctx])
            /\ Track(ctx, ctx)
  /\ UNCHANGED <<contexts, disposes, epoch>>

\* request.newContext() settles: the new context is added to _ownedContexts
\* and fn(context) is awaited; a rejection rejects the verb
NewContextSettles(t) ==
  /\ verbs[t].pc = "newContext"
  /\ \E o \in Outcomes :
       IF o = "threw"
       THEN /\ verbs' = [verbs EXCEPT ![t].pc = "failed"]
            /\ UNCHANGED <<contexts, ownedContexts, justDisposed>>
       ELSE /\ contexts' = Append(contexts, [by |-> "client", disposeCalls |-> 0,
                                             epoch |-> epoch])
            /\ Track(Len(contexts) + 1, 0)
            /\ verbs' = [verbs EXCEPT ![t] = [pc |-> "request",
                                              ctx |-> Len(contexts) + 1]]
  /\ UNCHANGED <<disposes, epoch>>

\* fn(context) settles, and the verb with it: it returns the response or
\* rejects with the request's error, and the client is left as it is in
\* both cases
RequestSettles(t) ==
  /\ verbs[t].pc = "request"
  /\ verbs' = [verbs EXCEPT ![t].pc = "settled"]
  /\ UNCHANGED <<ownedContexts, contexts, disposes, epoch, justDisposed>>

\* variant: the loop of dispose() without its try/catch
DisposeUncaught(o) == FALSE

\* `try { await ctx.dispose() } catch (e) { errors.push(e) }`
DisposeCaught(o) == TRUE

\* variant: dispose() raising whatever `errors` holds
ShouldRaiseAlways(errors) == TRUE

\* `if (errors.length) throw new AggregateError(errors, ...)`
ShouldRaise(errors) == Len(errors) > 0

\* a dispose() call suspended at `await ctx.dispose()`
Disposing(d) == disposes[d].pc = "await"

\* variant: the loop going over a copy of the set made when dispose() started
IteratedCopy(rec) ==
  [i \in 1..Len(ownedContexts) |->
     IF ownedContexts[i] \in rec.start THEN ownedContexts[i] ELSE 0]

\* `for (const ctx of this._ownedContexts)`: the iterator reads the set
\* itself, entries added while the loop is suspended included
Iterated(rec) == ownedContexts

\* the `for (const ctx of this._ownedContexts)` loop of call d (whose record
\* becomes `rec` in the list `all` of calls), from the iterator's next() to
\* the following `await ctx.dispose()`, or, when the iterator is exhausted,
\* through _ownedContexts.clear() to the return or the throw of the
\* AggregateError
DisposeLoop(all, d, rec) ==
  LET n == SetNext(Iterated(rec), rec.idx) IN
  IF n # 0
  THEN /\ contexts' = [contexts EXCEPT ![ownedContexts[n]].disposeCalls = @ + 1]
       /\ disposes' = [all EXCEPT ![d] = [rec EXCEPT !.pc = "await", !.idx = n,
                                                     !.at = ownedContexts[n]]]
       /\ UNCHANGED <<ownedContexts, epoch, justDisposed>>
  ELSE /\ ownedContexts' = SetClear(ownedContexts)
       /\ epoch' = epoch + 1
       /\ justDisposed' = TRUE
       /\ disposes' = [all EXCEPT ![d] =
            [rec EXCEPT !.pc = IF ShouldRaise(rec.errors) THEN "raised" ELSE "returned",
                        !.at = 0,
                        !.left = SetValues(SetClear(ownedContexts))]]
       /\ UNCHANGED contexts

\* client.dispose() up to its first await. The caller awaits dispose(), as
\* the closure pushed by session.api does: dispose() calls do not overlap
\* one another, verb calls may still be in flight
dispose ==
  /\ Len(disposes) < MaxDisposes
  /\ \A e \in 1..Len(disposes) : ~Disposing(e)
  /\ LET rec == [pc |-> "start", idx |-> 0, at |-> 0, errors |-> <<>>,
                 attempts |-> <<>>, start |-> SetValues(ownedContexts),
                 follows |-> justDisposed, left |-> {}]
     IN DisposeLoop(Append(disposes, rec), Len(disposes) + 1, rec)
  /\ UNCHANGED verbs

\* `await ctx.dispose()` settles in dispose() call d: a rejection is pushed
\* onto `errors`, and the loop goes on
DisposeResume(d) ==
  /\ Disposing(d)
  /\ \E o \in Outcomes :
       LET cur == disposes[d]
           seen == [cur EXCEPT !.attempts = Append(@, [ctx |-> cur.at, o |-> o])]
       IN IF o = "threw" /\ ~DisposeCaught(o)
          THEN /\ disposes' = [disposes EXCEPT ![d] =
                                 [seen EXCEPT !.pc = "raised", !.at = 0,
                                              !.left = SetValues(ownedContexts)]]
               /\ justDisposed' = TRUE
               /\ UNCHANGED <<ownedContexts, contexts, epoch>>
          ELSE DisposeLoop(disposes, d,
                           IF o = "threw"
                           THEN [seen EXCEPT !.errors = Append(@, cur.at)]
                           ELSE seen)
  /\ UNCHANGED verbs

(* ============================== adapters ============================== *)
\* no adapter constructed yet. A handle field is "unset" (undefined), or
\* holds a handle: "open", "detached" (a page or context that has no
\* browser), "closed" (close() has been called on it). `since` is the
\* number of the call that last assigned a handle field: two handles are
\* the same object only when they were assigned by the same call. `owned`
\* is history: the fields whose handle the adapter opened itself, the others
\* holding what the caller passed to bind() or nothing
adInit ==
  /\ adapter = [class |-> "none", page |-> "unset", context |-> "unset",
                browser |-> "unset", driver |-> "unset", since |-> 0,
                owned |-> {}]
  /\ last = [op |-> "none", action |-> "", arg |-> "", result |-> "",
             handleOps |-> <<>>, pre |-> adapter,
             hist |-> [fresh |-> TRUE, torn |-> FALSE, tornBound |-> FALSE, navigated |-> FALSE]]
  /\ adHist = [fresh |-> TRUE, torn |-> FALSE, tornBound |-> FALSE, navigated |-> FALSE]
  /\ nCalls = 0

AdapterKinds == {"playwright", "appium"}

\* the registry of AdapterFactory
registry(kind) == IF kind = "playwright" THEN "PlaywrightAdapter" ELSE "AppiumAdapter"

\* AdapterFactory.create(kind): `new Ctor()`, every field undefined
create ==
  /\ adapter.class = "none"
  /\ \E kind \in AdapterKinds : adapter' = [adapter EXCEPT !.class = registry(kind)]
  /\ UNCHANGED <<last, adHist, nCalls>>

\* variant: ensureReady never throwing
NotReadyNever(a) == FALSE

\* PlaywrightAdapter.ensureReady throws:
\* `!this.page || !this.context || !this.browser`
NotReady(a) == a.page = "unset" \/ a.context = "unset" \/ a.browser = "unset"

\* AppiumAdapter.ensureStarted throws: `!this.driver`
NotStarted(a) == a.driver = "unset"

\* the cases of the switch of PlaywrightAdapter.execute
PlaywrightActions ==
  {"click", "fill", "type", "getText", "waitForSelector", "screenshot", "title", "url"}

\* the cases of the switch of AppiumAdapter.execute
AppiumActions == {"tap", "setValue", "getText", "launchApp", "terminateApp"}

\* action names a caller may pass to execute()
ActionNames == PlaywrightActions \cup AppiumActions \cup {"hover", ""}

\* the params argument: an object with the fields the action reads, or none
ParamShapes == {"given", "missing"}

\* variant: the switch of PlaywrightAdapter.execute without its default case
PlaywrightSupportsAny(action) == TRUE

\* PlaywrightAdapter.execute: the action has a case in the switch
PlaywrightSupports(action) == action \in PlaywrightActions

\* AppiumAdapter.execute: the action has a case in the switch
AppiumSupports(action) == action \in AppiumActions

\* PlaywrightAdapter.execute: the cases that go through as<T>(params), which
\* throws for a missing params (screenshot passes `params ?? {}`)
PlaywrightReadsParams(action) ==
  action \in {"click", "fill", "type", "getText", "waitForSelector"}

\* one operation invoked on an engine handle, and how it settled
HandleOp(h, op, o) == [h |-> h, op |-> op, o |-> o]

\* the outcome of an adapter call: how it ended and what it invoked
Ended(result, handleOps) == [result |-> result, handleOps |-> handleOps]

\* how a call that awaited one engine operation ends
EngineResult(o) == IF o = "ok" THEN "returned" ELSE "engine"

\* PlaywrightAdapter.execute(action, params)
PlaywrightExecute(a, action, params, o) ==
  IF NotReady(a) THEN Ended("notStarted", <<>>)
  ELSE IF ~PlaywrightSupports(action) THEN Ended("unsupported", <<>>)
  ELSE IF PlaywrightReadsParams(action) /\ params = "missing"
       THEN Ended("invalid", <<>>)
  ELSE Ended(EngineResult(o), <<HandleOp("page", action, o)>>)

\* AppiumAdapter.execute(action, params): every case checks the field of
\* params it needs before it touches the driver
AppiumExecute(a, action, params, o) ==
  IF NotStarted(a) THEN Ended("notStarted", <<>>)
  ELSE IF ~AppiumSupports(action) THEN Ended("unsupported", <<>>)
  ELSE IF params = "missing" THEN Ended("invalid", <<>>)
  ELSE Ended(EngineResult(o), <<HandleOp("driver", action, o)>>)

\* PlaywrightAdapter.navigate(url): ensureReady, then page.goto
PlaywrightNavigate(a, o) ==
  IF NotReady(a) THEN Ended("notStarted", <<>>)
  ELSE Ended(EngineResult(o), <<HandleOp("page", "goto", o)>>)

\* AppiumAdapter.navigate(target): ensureStarted, then driver.url
AppiumNavigate(a, o) ==
  IF NotStarted(a) THEN Ended("notStarted", <<>>)
  ELSE Ended(EngineResult(o), <<HandleOp("driver", "url", o)>>)

\* the record of a call made on the adapter in its present state
Call(op, action, arg, r) ==
  [op |-> op, action |-> action, arg |-> arg, result |-> r.result,
   handleOps |-> r.handleOps, pre |-> adapter, hist |-> adHist]

\* the adapter exists and the caller, who awaits each call, may make one more
MayCall == adapter.class # "none" /\ nCalls < MaxAdapterCalls

\* adapter.execute(action, params)
execute ==
  /\ MayCall
  /\ \E action \in ActionNames, params \in ParamShapes, o \in Outcomes :
       last' = Call("execute", action, params,
                    IF adapter.class = "PlaywrightAdapter"
                    THEN PlaywrightExecute(adapter, action, params, o)
                    ELSE AppiumExecute(adapter, action, params, o))
  /\ nCalls' = nCalls + 1
  /\ UNCHANGED <<adapter, adHist>>

\* adapter.navigate(target)
navigate ==
  /\ MayCall
  /\ \E o \in Outcomes :
       last' = Call("navigate", "", "",
                    IF adapter.class = "PlaywrightAdapter"
                    THEN PlaywrightNavigate(adapter, o)
                    ELSE AppiumNavigate(adapter, o))
  /\ nCalls' = nCalls + 1
  /\ adHist' = [adHist EXCEPT !.navigated = @ \/ last'.result = "returned"]
  /\ UNCHANGED adapter

\* PlaywrightAdapter.init on adapter `a` when the first n of launch,
\* newContext, newPage resolve: a field is assigned when its call resolved
PlaywrightInitOn(a, n) ==
  [a EXCEPT !.browser = IF PlaywrightInit(n).browser = "open" THEN "open" ELSE @,
            !.context = IF PlaywrightInit(n).context = "open" THEN "open" ELSE @,
            !.page    = IF PlaywrightInit(n).page = "open" THEN "open" ELSE @,
            !.since   = IF n >= 1 THEN nCalls + 1 ELSE @,
            !.owned   = @ \cup {h \in {"browser", "context", "page"} :
                                  PlaywrightInit(n)[h] = "open"}]

\* the engine calls PlaywrightAdapter.init makes when the first n resolve
PlaywrightInitOps(n) ==
  LET all == <<HandleOp("engine", "launch", IF n >= 1 THEN "ok" ELSE "threw"),
               HandleOp("browser", "newContext", IF n >= 2 THEN "ok" ELSE "threw"),
               HandleOp("context", "newPage", IF n >= 3 THEN "ok" ELSE "threw")>>
  IN SubSeq(all, 1, IF n < 3 THEN n + 1 ELSE 3)

\* the options of AppiumAdapter.init: with or without `capabilities`
AppiumOptions == {"capabilities", "none"}

\* adapter.init(options)
init ==
  /\ MayCall
  /\ IF adapter.class = "PlaywrightAdapter"
     THEN \E n \in 0..3 :
            /\ adapter' = PlaywrightInitOn(adapter, n)
            /\ last' = Call("init", "", "",
                            Ended(IF n = 3 THEN "returned" ELSE "engine",
                                  PlaywrightInitOps(n)))
     ELSE \E options \in AppiumOptions, o \in Outcomes :
            IF options = "none"
            THEN /\ last' = Call("init", "", options, Ended("invalid", <<>>))
                 /\ UNCHANGED adapter
            ELSE /\ last' = Call("init", "", options,
                                 Ended(EngineResult(o),
                                       <<HandleOp("engine", "remote", o)>>))
                 /\ adapter' = [adapter EXCEPT !.driver = IF o = "ok" THEN "open" ELSE @,
                                               !.since = IF o = "ok" THEN nCalls + 1 ELSE @,
                                               !.owned = IF o = "ok" THEN {"driver"} ELSE @]
  /\ adHist' = [fresh |-> FALSE, torn |-> FALSE, tornBound |-> FALSE, navigated |-> FALSE]
  /\ nCalls' = nCalls + 1

\* the session argument of PlaywrightAdapter.bind: {}, { page }, { context }
\* or { browser }, the page or the context with or without a browser
PlaywrightSessions ==
  {"none", "page", "pageNoBrowser", "context", "contextNoBrowser", "browser"}

\* the session argument of AppiumAdapter.bind: with or without a driver
AppiumSessions == {"none", "driver"}

\* PlaywrightAdapter.bind(session) on adapter `a`, when the first n of the
\* engine calls it awaits resolve: the adapter afterwards
PlaywrightBind(a, session, n) ==
  CASE session = "page" ->
         [a EXCEPT !.page = "open", !.context = "open", !.browser = "open",
                   !.since = nCalls + 1, !.owned = {}]
    [] session = "pageNoBrowser" ->
         [a EXCEPT !.page = "detached", !.since = nCalls + 1,
                   !.owned = @ \ {"page"}]
    [] session = "context" ->
         [a EXCEPT !.context = "open", !.browser = "open",
                   !.page = IF n >= 1 THEN "open" ELSE @, !.since = nCalls + 1,
                   !.owned = IF n >= 1 THEN {"page"} ELSE @ \ {"context", "browser"}]
    [] session = "contextNoBrowser" ->
         [a EXCEPT !.context = "detached", !.since = nCalls + 1,
                   !.owned = @ \ {"context"}]
    [] session = "browser" ->
         [a EXCEPT !.browser = "open",
                   !.context = IF n >= 1 THEN "open" ELSE @,
                   !.page = IF n >= 2 THEN "open" ELSE @, !.since = nCalls + 1,
                   !.owned = (@ \ {"browser"})
                             \cup (IF n >= 1 THEN {"context"} ELSE {})
                             \cup (IF n >= 2 THEN {"page"} ELSE {})]
    [] OTHER -> a

\* PlaywrightAdapter.bind(session): how it ends and what it invoked
PlaywrightBindEnds(session, n) ==
  CASE session = "page" -> Ended("returned", <<>>)
    [] session = "context" ->
         Ended(IF n >= 1 THEN "returned" ELSE "engine",
               <<HandleOp("context", "newPage", IF n >= 1 THEN "ok" ELSE "threw")>>)
    [] session = "browser" ->
         Ended(IF n >= 2 THEN "returned" ELSE "engine",
               SubSeq(<<HandleOp("browser", "newContext", IF n >= 1 THEN "ok" ELSE "threw"),
                        HandleOp("context", "newPage", IF n >= 2 THEN "ok" ELSE "threw")>>,
                      1, IF n >= 1 THEN 2 ELSE 1))
    [] OTHER -> Ended("shape", <<>>)

\* AppiumAdapter.bind(session): `if (!session?.driver) throw`, then
\* `this.driver = session.driver`
AppiumBind(a, session) ==
  IF session = "none" THEN a
  ELSE [a EXCEPT !.driver = "open", !.since = nCalls + 1, !.owned = {}]

\* adapter.bind(session)
bind ==
  /\ MayCall
  /\ IF adapter.class = "PlaywrightAdapter"
     THEN \E session \in PlaywrightSessions, n \in 0..2 :
            /\ adapter' = PlaywrightBind(adapter, session, n)
            /\ last' = Call("bind", "", session, PlaywrightBindEnds(session, n))
     ELSE \E session \in AppiumSessions :
            /\ adapter' = AppiumBind(adapter, session)
            /\ last' = Call("bind", "", session,
                            Ended(IF session = "none" THEN "shape" ELSE "returned",
                                  <<>>))
  /\ adHist' = [fresh |-> FALSE, torn |-> FALSE, tornBound |-> FALSE, navigated |-> FALSE]
  /\ nCalls' = nCalls + 1

\* variant: PlaywrightAdapter.teardown with its close() calls outside try/catch
CloseUncaught(o) == FALSE

\* `try { await this.page?.close() } catch {}`, and so for context and browser
CloseCaught(o) == TRUE

\* variant: AppiumAdapter.teardown without `.catch(() => void 0)`
DeleteSessionUncaught(o) == FALSE

\* `await this.driver.deleteSession().catch(() => void 0)`
DeleteSessionCaught(o) == TRUE

\* the fields PlaywrightAdapter.teardown goes through, in its order
TeardownOrder == <<"page", "context", "browser">>

\* `this.page?.close()`: the close() calls teardown makes on adapter `a`, one
\* per field that holds a handle, os[h] being how close() settles on handle h
PlaywrightCloses(a, os) ==
  LET Holds(h) == a[h] # "unset"
      held == SelectSeq(TeardownOrder, Holds)
  IN [i \in 1..Len(held) |-> HandleOp(held[i], "close", os[held[i]])]

\* PlaywrightAdapter.teardown(): the calls made up to a close() failure that
\* is not caught, all of them when every failure is caught
PlaywrightTeardownEnds(a, os) ==
  LET closes == PlaywrightCloses(a, os)
      Escapes(i) == closes[i].o = "threw" /\ ~CloseCaught(closes[i].o)
  IN IF \E i \in 1..Len(closes) : Escapes(i)
     THEN Ended("engine",
                SubSeq(closes, 1, CHOOSE i \in 1..Len(closes) :
                                     Escapes(i) /\ \A j \in 1..(i - 1) : ~Escapes(j)))
     ELSE Ended("returned", closes)

\* AppiumAdapter.teardown(): deleteSession on the driver the adapter holds
AppiumTeardownEnds(a, o) ==
  IF a.driver = "unset" THEN Ended("returned", <<>>)
  ELSE Ended(IF o = "threw" /\ ~DeleteSessionCaught(o) THEN "engine" ELSE "returned",
             <<HandleOp("driver", "deleteSession", o)>>)

\* AppiumAdapter.teardown(): `this.driver = undefined` once deleteSession
\* has settled and its failure was caught
AppiumTeardown(a, o) ==
  IF a.driver # "unset" /\ (o = "ok" \/ DeleteSessionCaught(o))
  THEN [a EXCEPT !.driver = "unset"] ELSE a

\* the adapter holds every handle it works with
HoldsSession(a) ==
  IF a.class = "PlaywrightAdapter"
  THEN a.page # "unset" /\ a.context # "unset" /\ a.browser # "unset"
  ELSE a.driver # "unset"

\* adapter.teardown()
teardown ==
  /\ MayCall
  /\ IF adapter.class = "PlaywrightAdapter"
     THEN \E os \in [{"page", "context", "browser"} -> Outcomes] :
            /\ last' = Call("teardown", "", "", PlaywrightTeardownEnds(adapter, os))
            /\ adapter' = [adapter EXCEPT !.page = PlaywrightTeardown(adapter).page,
                                          !.context = PlaywrightTeardown(adapter).context,
                                          !.browser = PlaywrightTeardown(adapter).browser]
     ELSE \E o \in Outcomes :
            /\ last' = Call("teardown", "", "", AppiumTeardownEnds(adapter, o))
            /\ adapter' = AppiumTeardown(adapter, o)
  /\ adHist' = IF last'.result = "returned"
               THEN [adHist EXCEPT !.torn = TRUE,
                                   !.tornBound = @ \/ HoldsSession(adapter)]
               ELSE adHist
  /\ nCalls' = nCalls + 1

(* ============================ capabilities ============================ *)
\* a JavaScript value: a string (its characters), a number, a boolean,
\* undefined, or a plain object (its own properties, key |-> value)
NoProps == [k \in {} |-> 0]

StrV(chars) == [kind |-> "str", s |-> chars, n |-> 0, obj |-> NoProps]

NumV(n) == [kind |-> "num", s |-> <<>>, n |-> n, obj |-> NoProps]

BoolV(b) == [kind |-> "bool", s |-> <<>>, n |-> IF b THEN 1 ELSE 0, obj |-> NoProps]

UndefV == [kind |-> "undef", s |-> <<>>, n |-> 0, obj |-> NoProps]

ObjV(props) == [kind |-> "obj", s |-> <<>>, n |-> 0, obj |-> props]

\* obj[k]: undefined for a key the object does not have
Get(props, k) == IF k \in DOMAIN props THEN props[k] ELSE UndefV

\* `{ ...a, ...b }`
Spread(a, b) ==
  [k \in DOMAIN a \cup DOMAIN b |-> IF k \in DOMAIN b THEN b[k] ELSE a[k]]

\* `obj[k] = v`
SetProp(props, k, v) == Spread(props, [x \in {k} |-> v])

\* `delete obj[k]`
DeleteProp(props, k) == [x \in DOMAIN props \ {k} |-> props[x]]

\* isRecord: `typeof v === "object" && v !== null && !Array.isArray(v)`
isRecord(v) == v.kind = "obj"

Str_Android == <<"A", "n", "d", "r", "o", "i", "d">>
Str_iOS == <<"i", "O", "S">>
Str_UiAutomator2 == <<"U", "i", "A", "u", "t", "o", "m", "a", "t", "o", "r", "2">>
Str_XCUITest == <<"X", "C", "U", "I", "T", "e", "s", "t">>
Str_ios == <<"i", "o", "s">>
Str_15_0 == <<"1", "5", ".", "0">>
Str_X == <<"1", "0", "A", "D", "7", "N", "1", "8", "6", "2", "0", "0", "1", "A", "S">>
Str_Chrome == <<"C", "h", "r", "o", "m", "e">>

\* CapabilityBuilder.android(): the builder's caps
android ==
  [k \in {"platformName", "appium:automationName"} |->
     IF k = "platformName" THEN StrV(Str_Android) ELSE StrV(Str_UiAutomator2)]

\* CapabilityBuilder.ios(): the builder's caps
ios ==
  [k \in {"platformName", "appium:automationName"} |->
     IF k = "platformName" THEN StrV(Str_iOS) ELSE StrV(Str_XCUITest)]

\* builder.option(k, v): `this.caps[k] = v`
option(caps, k, v) == SetProp(caps, k, v)

\* builder.udid(v)
udid(caps, v) == SetProp(caps, "appium:udid", StrV(v))

\* builder.platformVersion(v)
platformVersion(caps, v) == SetProp(caps, "appium:platformVersion", StrV(v))

\* builder.browserName(v)
browserName(caps, v) == SetProp(caps, "browserName", StrV(v))

\* builder.unset(k)
unset(caps, k) == DeleteProp(caps, k)

\* builder.merge(obj): `this.caps = { ...this.caps, ...obj }`
merge(caps, obj) == Spread(caps, obj)

\* builder.vendor(ns, opts): `this.caps[ns] = { ...base, ...opts }`, base
\* being the object already under ns, or {} when there is none
vendor(caps, ns, opts) ==
  SetProp(caps, ns,
          ObjV(Spread(IF isRecord(Get(caps, ns)) THEN Get(caps, ns).obj ELSE NoProps, opts)))

(* ============================= providers ============================== *)
pvInit ==
  /\ acquired = <<>>
  /\ released = <<>>

ProviderClasses == {"LocalProvider", "BrowserStackProvider", "SauceLabsProvider"}

\* String.prototype.trim
trim(str) ==
  LET inked == {i \in 1..Len(str) : str[i] # " "}
  IN  IF inked = {} THEN <<>>
      ELSE SubSeq(str, CHOOSE i \in inked : \A j \in inked : i <= j,
                       CHOOSE i \in inked : \A j \in inked : i >= j)

\* String.prototype.includes
includes(str, sub) ==
  \E i \in 0..(Len(str) - Len(sub)) : SubSeq(str, i + 1, i + Len(sub)) = sub

\* what a caller hands to getMobileDriver: a CapabilityBuilder instance (v is
\* then the object in its `caps` field) or any other value
CapsInput(isBuilder, v) == [builder |-> isBuilder, frozen |-> FALSE, v |-> v]

\* a capability set as build() returns it: the object, frozen
Frozen(v) == [builder |-> FALSE, frozen |-> TRUE, v |-> v]

\* the input as the JavaScript object it is: a builder's only own property
\* is `caps`
AsValue(input) ==
  IF input.builder THEN ObjV([k \in {"caps"} |-> input.v]) ELSE input.v

\* variant: the name is trimmed and its letter case kept
NormaliseKeepingCase(str) == trim(str)

\* `.trim().toLowerCase()`
Normalise(str) == toLowerCase(trim(str))

pickPlatformName(caps) ==
  IF ~isRecord(caps) THEN <<>>
  ELSE LET pn1 == Get(caps.obj, "platformName")
           pn2 == Get(caps.obj, "appium:platformName")
       IN  Normalise(IF pn1.kind = "str" THEN pn1.s
                     ELSE IF pn2.kind = "str" THEN pn2.s
                     ELSE <<>>)

detectPlatformFromCaps(caps) ==
  IF includes(pickPlatformName(caps), Str_ios) THEN "ios" ELSE "android"

\* variant: the input's entries are not copied onto the base builder
toBuilderBaseOnly(input, platform) ==
  IF input.builder THEN input.v.obj
  ELSE IF platform = "ios" THEN ios ELSE android

\* toBuilder: the caps of the builder it returns
toBuilder(input, platform) ==
  IF input.builder THEN input.v.obj
  ELSE Spread(IF platform = "ios" THEN ios ELSE android,
              IF isRecord(input.v) THEN input.v.obj ELSE NoProps)

\* buildCaps(builder): builder.buildMutable(), a copy of the builder's caps
buildCaps(caps) == caps

\* the caller's input once getMobileDriver has run, `after` being the caps
\* of the builder toBuilder returned: that builder is the caller's own when
\* the input is a CapabilityBuilder, and a new one otherwise, the input's
\* entries having only been read
InputAfter(input, after) == IF input.builder THEN ObjV(after) ELSE input.v

\* variant: mergeVendor with `{ ...current, ...defaults }`
mergeVendorDefaultsWin(caps, ns, defaults) ==
  option(caps, ns,
         ObjV(Spread(IF isRecord(Get(caps, ns)) THEN Get(caps, ns).obj ELSE NoProps,
                     defaults)))

\* mergeVendor: `merged = { ...defaults, ...current }; builder.option(ns, merged)`
mergeVendor(caps, ns, defaults) ==
  option(caps, ns,
         ObjV(Spread(defaults,
                     IF isRecord(Get(caps, ns)) THEN Get(caps, ns).obj ELSE NoProps)))

Str_critter_build == <<"c", "r", "i", "t", "t", "e", "r", "-", "b", "u", "i", "l", "d">>
Str_iOS_Mobile_Test == <<"i", "O", "S", " ", "M", "o", "b", "i", "l", "e", " ", "T", "e", "s", "t">>
Str_Android_Mobile_Test == <<"A", "n", "d", "r", "o", "i", "d", " ", "M", "o", "b", "i", "l", "e", " ", "T", "e", "s", "t">>
Str_2_0_0 == <<"2", ".", "0", ".", "0">>
Str_tunnel == <<"t", "u", "n", "n", "e", "l", "-", "1">>
Str_mine == <<"m", "i", "n", "e">>

\* the namespace a provider writes its defaults under ("" for none)
VendorNamespace(class) ==
  CASE class = "BrowserStackProvider" -> "bstack:options"
    [] class = "SauceLabsProvider" -> "sauce:options"
    [] OTHER -> ""

\* the defaults a provider merges; flag is its browserstackLocal, or whether
\* Sauce Connect is on with a tunnel identifier in the environment
VendorDefaults(class, platform, flag) ==
  LET test == StrV(IF platform = "ios" THEN Str_iOS_Mobile_Test
                   ELSE Str_Android_Mobile_Test)
  IN  CASE class = "BrowserStackProvider" ->
             [k \in {"local", "buildName", "sessionName", "appiumVersion"} |->
                CASE k = "local" -> BoolV(flag)
                  [] k = "buildName" -> StrV(Str_critter_build)
                  [] k = "sessionName" -> test
                  [] OTHER -> StrV(Str_2_0_0)]
        [] class = "SauceLabsProvider" ->
             [k \in {"build", "name", "tunnelIdentifier"} |->
                CASE k = "build" -> StrV(Str_critter_build)
                  [] k = "name" -> test
                  [] OTHER -> IF flag THEN StrV(Str_tunnel) ELSE UndefV]
        [] OTHER -> NoProps

\* the builder's caps after the provider's mergeVendor call (LocalProvider
\* makes none)
WithVendorDefaults(class, caps, platform, flag) ==
  IF VendorNamespace(class) = "" THEN caps
  ELSE mergeVendor(caps, VendorNamespace(class), VendorDefaults(class, platform, flag))

\* one-key and two-key objects
Obj1(k, v) == [x \in {k} |-> v]

Obj2(k1, v1, k2, v2) == [x \in {k1, k2} |-> IF x = k1 THEN v1 ELSE v2]

\* android().browserName("Chrome").udid(X).platformVersion("15.0").build()
LocalTestCaps ==
  platformVersion(udid(browserName(android, Str_Chrome), Str_X), Str_15_0)

\* the inputs callers pass
CapsInputs ==
  {Frozen(ObjV(LocalTestCaps)),
   Frozen(ObjV(ios)),
   CapsInput(FALSE, ObjV(ios)),
   CapsInput(FALSE, ObjV(Obj1("platformName", StrV(<<"I", "O", "S">>)))),
   CapsInput(FALSE, ObjV(Obj1("platformName", StrV(<<" ", "I", "o", "s", " ">>)))),
   CapsInput(FALSE, ObjV(Obj1("platformName", StrV(<<"W", "i", "n", "d", "o", "w", "s">>)))),
   CapsInput(FALSE, ObjV(Obj1("appium:platformName", StrV(Str_iOS)))),
   CapsInput(FALSE, ObjV(Obj2("platformName", NumV(7), "appium:platformName", StrV(Str_ios)))),
   CapsInput(FALSE, ObjV(Obj2("platformName", StrV(Str_Android),
                              "appium:platformName", StrV(Str_iOS)))),
   CapsInput(FALSE, ObjV(Obj1("browserName", StrV(Str_Chrome)))),
   CapsInput(FALSE, UndefV),
   CapsInput(FALSE, ObjV(vendor(android, "bstack:options",
                                Obj2("buildName", StrV(Str_mine), "debug", BoolV(TRUE))))),
   CapsInput(FALSE, ObjV(vendor(ios, "sauce:options",
                                Obj2("name", StrV(Str_mine), "tunnelIdentifier", UndefV)))),
   CapsInput(FALSE, ObjV(option(android, "sauce:options", StrV(Str_mine)))),
   CapsInput(TRUE, ObjV(ios)),
   CapsInput(TRUE, ObjV(vendor(android, "bstack:options",
                               Obj2("local", BoolV(TRUE), "sessionName", StrV(Str_mine))))),
   CapsInput(TRUE, ObjV(vendor(android, "sauce:options", Obj1("build", StrV(Str_mine)))))}

\* provider.getMobileDriver(caps): detect the platform, make the builder,
\* merge the vendor defaults, build, and pass the result to remote()
ProviderGetMobileDriver ==
  /\ Len(acquired) + Len(released) < MaxProviderCalls
  /\ \E class \in ProviderClasses, input \in CapsInputs, flag \in BOOLEAN :
       LET platform == detectPlatformFromCaps(AsValue(input))
           builder  == toBuilder(input, platform)
           merged   == WithVendorDefaults(class, builder, platform, flag)
       IN  acquired' = Append(acquired,
             [class |-> class, input |-> input, flag |-> flag,
              platform |-> platform, builder |-> builder,
              inputAfter |-> InputAfter(input, merged),
              capabilities |-> buildCaps(merged),
              again |-> buildCaps(WithVendorDefaults(class, merged, platform, flag))])
  /\ UNCHANGED released

\* what callers pass as the handle
Handles == {"undefined", "null", "plainObject", "deleteSessionNotAFunction", "driver"}

\* variant: the handle is taken to be a driver
HasDeleteSessionAssumed(handle) == TRUE

\* `driver && typeof driver.deleteSession === "function"`
HasDeleteSession(handle) == handle = "driver"

\* provider.releaseDriver(driver); o is how driver.deleteSession() settles
ProviderReleaseDriver ==
  /\ Len(acquired) + Len(released) < MaxProviderCalls
  /\ \E class \in ProviderClasses, handle \in Handles, o \in Outcomes :
       released' = Append(released,
         IF HasDeleteSession(handle)
         THEN [class |-> class, handle |-> handle, deleteCalls |-> 1,
               result |-> IF o = "ok" THEN "returned" ELSE "raised"]
         ELSE [class |-> class, handle |-> handle, deleteCalls |-> 0,
               result |-> "returned"])
  /\ UNCHANGED acquired

(* ========================= CapabilityBuilder ========================== *)
cbInit ==
  /\ objects = <<>>
  /\ builderCaps = 0
  /\ results = <<>>
  /\ capsLast = [op |-> "none", ns |-> "", opts |-> NoProps, before |-> NoProps, target |-> 0]
  /\ nCapsOps = 0

\* a call on the builder, or an assignment to a returned object, may start
MayUseBuilder == builderCaps # 0 /\ nCapsOps < MaxCapsOps

\* the own properties of the builder's caps object
Caps == objects[builderCaps].props

\* `obj[k] = v` or `delete obj[k]` done by props -> f(props) on the object at
\* ref: a frozen object stays as it is (the statement raises a TypeError)
Mutate(ref, after) ==
  IF objects[ref].frozen THEN objects
  ELSE [objects EXCEPT ![ref].props = after]

CalledWith(op, ns, opts, target) ==
  [op |-> op, ns |-> ns, opts |-> opts, before |-> Caps, target |-> target]

\* CapabilityBuilder.android() / ios(): the constructor copies the base into
\* a new caps object
NewBuilder ==
  /\ builderCaps = 0
  /\ \E base \in {android, ios} :
       objects' = Append(objects, [props |-> base, frozen |-> FALSE])
  /\ builderCaps' = Len(objects) + 1
  /\ UNCHANGED <<results, capsLast, nCapsOps>>

\* the fluent setters udid(v), platformVersion(v)
CapsSetter ==
  /\ MayUseBuilder
  /\ \E after \in {udid(Caps, Str_X), platformVersion(Caps, Str_15_0)} :
       objects' = Mutate(builderCaps, after)
  /\ capsLast' = CalledWith("setter", "", NoProps, 0)
  /\ nCapsOps' = nCapsOps + 1
  /\ UNCHANGED <<builderCaps, results>>

\* option(k, v)
CapsOption ==
  /\ MayUseBuilder
  /\ \E after \in {option(Caps, "platformName", StrV(Str_iOS)), option(Caps, "ns", NumV(9))} :
       objects' = Mutate(builderCaps, after)
  /\ capsLast' = CalledWith("option", "", NoProps, 0)
  /\ nCapsOps' = nCapsOps + 1
  /\ UNCHANGED <<builderCaps, results>>

\* unset(k)
CapsUnset ==
  /\ MayUseBuilder
  /\ \E k \in {"ns", "platformName"} :
       objects' = Mutate(builderCaps, unset(Caps, k))
  /\ capsLast' = CalledWith("unset", "", NoProps, 0)
  /\ nCapsOps' = nCapsOps + 1
  /\ UNCHANGED <<builderCaps, results>>

\* merge(obj): `this.caps = { ...this.caps, ...obj }`, a new caps object
CapsMerge ==
  /\ MayUseBuilder
  /\ \E obj \in {Obj1("appium:udid", StrV(Str_15_0)), Obj1("ns", ObjV(Obj1("a", NumV(9))))} :
       objects' = Append(objects, [props |-> merge(Caps, obj), frozen |-> FALSE])
  /\ builderCaps' = Len(objects) + 1
  /\ capsLast' = CalledWith("merge", "", NoProps, 0)
  /\ nCapsOps' = nCapsOps + 1
  /\ UNCHANGED results

\* vendor(ns, opts)
CapsVendor ==
  /\ MayUseBuilder
  /\ \E opts \in {Obj2("a", NumV(1), "b", NumV(2)), Obj1("a", NumV(9))} :
       /\ objects' = Mutate(builderCaps, vendor(Caps, "ns", opts))
       /\ capsLast' = CalledWith("vendor", "ns", opts, 0)
  /\ nCapsOps' = nCapsOps + 1
  /\ UNCHANGED <<builderCaps, results>>

\* variant: build() without Object.freeze
buildUnfrozen(caps) == [props |-> caps, frozen |-> FALSE]

\* build(): `Object.freeze({ ...this.caps })`
build(caps) == [props |-> caps, frozen |-> TRUE]

\* buildMutable(): `{ ...this.caps }`
buildMutable(caps) == [props |-> caps, frozen |-> FALSE]

\* a returned object, as the caller holds it: expect is what its properties
\* were on return, followed through the caller's own assignments to it
Returned(via, ref, props) == [via |-> via, ref |-> ref, first |-> props, expect |-> props]

CapsBuild ==
  /\ MayUseBuilder
  /\ objects' = Append(objects, build(Caps))
  /\ results' = Append(results, Returned("build", Len(objects) + 1, Caps))
  /\ capsLast' = CalledWith("build", "", NoProps, Len(results) + 1)
  /\ nCapsOps' = nCapsOps + 1
  /\ UNCHANGED builderCaps

CapsBuildMutable ==
  /\ MayUseBuilder
  /\ objects' = Append(objects, buildMutable(Caps))
  /\ results' = Append(results, Returned("buildMutable", Len(objects) + 1, Caps))
  /\ capsLast' = CalledWith("buildMutable", "", NoProps, Len(results) + 1)
  /\ nCapsOps' = nCapsOps + 1
  /\ UNCHANGED builderCaps

\* the caller assigns to, or deletes, an own key of an object a build call
\* returned
ModifyResult ==
  /\ MayUseBuilder
  /\ \E r \in 1..Len(results) :
       \E after \in {SetProp(objects[results[r].ref].props, "platformName", StrV(Str_ios)),
                     SetProp(objects[results[r].ref].props, "extra", BoolV(TRUE)),
                     DeleteProp(objects[results[r].ref].props, "platformName")} :
         /\ objects' = Mutate(results[r].ref, after)
         /\ results' = [results EXCEPT ![r].expect =
                          IF results[r].via = "buildMutable" THEN after ELSE @]
         /\ capsLast' = CalledWith("modify", "", after, r)
  /\ nCapsOps' = nCapsOps + 1
  /\ UNCHANGED builderCaps

(* =========================== RequestBuilder =========================== *)
\* no builder yet; a body field is "undefined" or "set"
rqInit ==
  /\ request = [method |-> "none", dataBody |-> "undefined", jsonBody |-> "undefined",
                formBody |-> "undefined", multipartBody |-> "undefined",
                params |-> FALSE, headers |-> FALSE, extra |-> {}]
  /\ built = [method |-> "none", options |-> {}]
  /\ nRequestCalls = 0

\* a chained call or build() may be made on the builder
MayChain == request.method # "none" /\ nRequestCalls < MaxRequestCalls

\* the body fields of the request options
BodyFields == {"data", "json", "form", "multipart"}

\* the static factories: RequestBuilder.get(path), post(path), head(path), ...
RequestFactory ==
  /\ request.method = "none"
  /\ \E m \in {"GET", "POST", "HEAD"} : request' = [request EXCEPT !.method = m]
  /\ UNCHANGED <<built, nRequestCalls>>

\* a chained call leaving the builder as `after`
Chained(after) ==
  /\ MayChain
  /\ request' = after
  /\ nRequestCalls' = nRequestCalls + 1
  /\ UNCHANGED built

\* data(v): v is any value, undefined included
data ==
  \E v \in {"undefined", "set"} :
    Chained([request EXCEPT !.dataBody = v, !.jsonBody = "undefined",
                            !.formBody = "undefined", !.multipartBody = "undefined"])

\* json(v)
json ==
  \E v \in {"undefined", "set"} :
    Chained([request EXCEPT !.jsonBody = v, !.dataBody = "undefined",
                            !.formBody = "undefined", !.multipartBody = "undefined"])

\* form(v)
form ==
  Chained([request EXCEPT !.formBody = "set", !.dataBody = "undefined",
                          !.jsonBody = "undefined", !.multipartBody = "undefined"])

\* multipart(v)
multipart ==
  Chained([request EXCEPT !.multipartBody = "set", !.dataBody = "undefined",
                          !.jsonBody = "undefined", !.formBody = "undefined"])

\* options(opts): `Object.assign(this.extra, opts)`, opts being any
\* Partial<RequestOptions>
options ==
  \E opts \in {{"timeout"}, {"data"}, {"form", "multipart"}} :
    Chained([request EXCEPT !.extra = @ \cup opts])

\* headers_(obj) / header(name, value)
headers ==
  Chained([request EXCEPT !.headers = TRUE])

\* queries(obj) / query(name, value)
queries ==
  Chained([request EXCEPT !.params = TRUE])

\* build(): the keys of the options object it assembles; `...this.extra`
\* comes last
RequestBuild ==
  /\ MayChain
  /\ LET bodyAllowed == request.method # "HEAD" /\ request.method # "OPTIONS"
         Body(field, key) == IF bodyAllowed /\ request[field] # "undefined"
                             THEN {key} ELSE {}
     IN built' = [method |-> request.method,
                  options |-> (IF request.headers THEN {"headers"} ELSE {})
                              \cup (IF request.params THEN {"params"} ELSE {})
                              \cup Body("dataBody", "data")
                              \cup Body("jsonBody", "json")
                              \cup Body("formBody", "form")
                              \cup Body("multipartBody", "multipart")
                              \cup request.extra]
  /\ nRequestCalls' = nRequestCalls + 1
  /\ UNCHANGED request

(* -------------------------- specifications ---------------------------- *)
Init == fxInit /\ brInit /\ pfInit /\ acInit /\ adInit /\ pvInit /\ cbInit /\ rqInit

\* the session fixture
Next ==
  \/ api /\ UNCHANGED <<brVars, pfVars, acVars, adVars, pvVars, cbVars, rqVars>>
  \/ apiSend /\ UNCHANGED <<brVars, pfVars, acVars, adVars, pvVars, cbVars, rqVars>>
  \/ web /\ UNCHANGED <<brVars, pfVars, acVars, adVars, pvVars, cbVars, rqVars>>
  \/ mobile /\ UNCHANGED <<brVars, pfVars, acVars, adVars, pvVars, cbVars, rqVars>>
  \/ cleanup /\ UNCHANGED <<brVars, pfVars, acVars, adVars, pvVars, cbVars, rqVars>>
  \/ FixtureFinally /\ UNCHANGED <<brVars, pfVars, acVars, adVars, pvVars, cbVars, rqVars>>
  \/ \E t \in 1..Len(tasks) : WebInit(t) /\ UNCHANGED <<brVars, pfVars, acVars, adVars, pvVars, cbVars, rqVars>>
  \/ \E t \in 1..Len(tasks) : getOrInitProvider(t) /\ UNCHANGED <<brVars, pfVars, acVars, adVars, pvVars, cbVars, rqVars>>
  \/ \E t \in 1..Len(tasks) : MobileDriver(t) /\ UNCHANGED <<brVars, pfVars, acVars, adVars, pvVars, cbVars, rqVars>>
  \/ \E k \in 1..Len(closures) : ApiDisposeSettles(k) /\ UNCHANGED <<brVars, pfVars, acVars, adVars, pvVars, cbVars, rqVars>>
  \/ \E k \in 1..Len(closures) : WebTeardownSettles(k) /\ UNCHANGED <<brVars, pfVars, acVars, adVars, pvVars, cbVars, rqVars>>
  \/ \E k \in 1..Len(closures) : MobileTeardownSettles(k) /\ UNCHANGED <<brVars, pfVars, acVars, adVars, pvVars, cbVars, rqVars>>
  \/ \E k \in 1..Len(closures) : MobileReleaseSettles(k) /\ UNCHANGED <<brVars, pfVars, acVars, adVars, pvVars, cbVars, rqVars>>
  \/ \E c \in 1..Len(cleanups) : CleanupResume(c) /\ UNCHANGED <<brVars, pfVars, acVars, adVars, pvVars, cbVars, rqVars>>
  \/ \E c \in 1..Len(cleanups) : CleanupProviderDone(c) /\ UNCHANGED <<brVars, pfVars, acVars, adVars, pvVars, cbVars, rqVars>>

Spec == Init /\ [][Next]_vars

\* one DeviceBroker
NextBroker ==
  \/ BrokerCall /\ UNCHANGED <<fxVars, pfVars, acVars, adVars, pvVars, cbVars, rqVars>>
  \/ \E t \in 1..Len(ops) : ensureInit(t) /\ UNCHANGED <<fxVars, pfVars, acVars, adVars, pvVars, cbVars, rqVars>>
  \/ \E t \in 1..Len(ops) : BrokerDriver(t) /\ UNCHANGED <<fxVars, pfVars, acVars, adVars, pvVars, cbVars, rqVars>>
  \/ \E t \in 1..Len(ops) : BrokerCleanupDone(t) /\ UNCHANGED <<fxVars, pfVars, acVars, adVars, pvVars, cbVars, rqVars>>
  \/ releaseDriver /\ UNCHANGED <<fxVars, pfVars, acVars, adVars, pvVars, cbVars, rqVars>>

SpecBroker == Init /\ [][NextBroker]_vars

\* the ProviderFactory of one process
NextFactory ==
  \/ getProvider /\ UNCHANGED <<fxVars, brVars, acVars, adVars, pvVars, cbVars, rqVars>>

SpecFactory == Init /\ [][NextFactory]_vars

\* one ApiClient
NextApi ==
  \/ verb /\ UNCHANGED <<fxVars, brVars, pfVars, adVars, pvVars, cbVars, rqVars>>
  \/ dispose /\ UNCHANGED <<fxVars, brVars, pfVars, adVars, pvVars, cbVars, rqVars>>
  \/ \E t \in 1..Len(verbs) : NewContextSettles(t) /\ UNCHANGED <<fxVars, brVars, pfVars, adVars, pvVars, cbVars, rqVars>>
  \/ \E t \in 1..Len(verbs) : RequestSettles(t) /\ UNCHANGED <<fxVars, brVars, pfVars, adVars, pvVars, cbVars, rqVars>>
  \/ \E d \in 1..Len(disposes) : DisposeResume(d) /\ UNCHANGED <<fxVars, brVars, pfVars, adVars, pvVars, cbVars, rqVars>>

SpecApi == Init /\ [][NextApi]_vars

\* one adapter
NextAdapter ==
  \/ create /\ UNCHANGED <<fxVars, brVars, pfVars, acVars, pvVars, cbVars, rqVars>>
  \/ init /\ UNCHANGED <<fxVars, brVars, pfVars, acVars, pvVars, cbVars, rqVars>>
  \/ bind /\ UNCHANGED <<fxVars, brVars, pfVars, acVars, pvVars, cbVars, rqVars>>
  \/ navigate /\ UNCHANGED <<fxVars, brVars, pfVars, acVars, pvVars, cbVars, rqVars>>
  \/ execute /\ UNCHANGED <<fxVars, brVars, pfVars, acVars, pvVars, cbVars, rqVars>>
  \/ teardown /\ UNCHANGED <<fxVars, brVars, pfVars, acVars, pvVars, cbVars, rqVars>>

SpecAdapter == Init /\ [][NextAdapter]_vars

\* the providers' getMobileDriver and releaseDriver
NextProvider ==
  \/ ProviderGetMobileDriver /\ UNCHANGED <<fxVars, brVars, pfVars, acVars, adVars, cbVars, rqVars>>
  \/ ProviderReleaseDriver /\ UNCHANGED <<fxVars, brVars, pfVars, acVars, adVars, cbVars, rqVars>>

SpecProvider == Init /\ [][NextProvider]_vars

\* one CapabilityBuilder and the objects it returns
NextCaps ==
  \/ NewBuilder /\ UNCHANGED <<fxVars, brVars, pfVars, acVars, adVars, pvVars, rqVars>>
  \/ CapsSetter /\ UNCHANGED <<fxVars, brVars, pfVars, acVars, adVars, pvVars, rqVars>>
  \/ CapsOption /\ UNCHANGED <<fxVars, brVars, pfVars, acVars, adVars, pvVars, rqVars>>
  \/ CapsUnset /\ UNCHANGED <<fxVars, brVars, pfVars, acVars, adVars, pvVars, rqVars>>
  \/ CapsMerge /\ UNCHANGED <<fxVars, brVars, pfVars, acVars, adVars, pvVars, rqVars>>
  \/ CapsVendor /\ UNCHANGED <<fxVars, brVars, pfVars, acVars, adVars, pvVars, rqVars>>
  \/ CapsBuild /\ UNCHANGED <<fxVars, brVars, pfVars, acVars, adVars, pvVars, rqVars>>
  \/ CapsBuildMutable /\ UNCHANGED <<fxVars, brVars, pfVars, acVars, adVars, pvVars, rqVars>>
  \/ ModifyResult /\ UNCHANGED <<fxVars, brVars, pfVars, acVars, adVars, pvVars, rqVars>>

SpecCaps == Init /\ [][NextCaps]_vars

\* one RequestBuilder
NextRequest ==
  \/ RequestFactory /\ UNCHANGED <<fxVars, brVars, pfVars, acVars, adVars, pvVars, cbVars>>
  \/ data /\ UNCHANGED <<fxVars, brVars, pfVars, acVars, adVars, pvVars, cbVars>>
  \/ json /\ UNCHANGED <<fxVars, brVars, pfVars, acVars, adVars, pvVars, cbVars>>
  \/ form /\ UNCHANGED <<fxVars, brVars, pfVars, acVars, adVars, pvVars, cbVars>>
  \/ multipart /\ UNCHANGED <<fxVars, brVars, pfVars, acVars, adVars, pvVars, cbVars>>
  \/ options /\ UNCHANGED <<fxVars, brVars, pfVars, acVars, adVars, pvVars, cbVars>>
  \/ headers /\ UNCHANGED <<fxVars, brVars, pfVars, acVars, adVars, pvVars, cbVars>>
  \/ queries /\ UNCHANGED <<fxVars, brVars, pfVars, acVars, adVars, pvVars, cbVars>>
  \/ RequestBuild /\ UNCHANGED <<fxVars, brVars, pfVars, acVars, adVars, pvVars, cbVars>>

SpecRequest == Init /\ [][NextRequest]_vars

(* ============================= properties ============================= *)
\* the fixture's own final cleanup() has returned
FixtureDone ==
  \E c \in 1..Len(cleanups) : cleanups[c].final /\ cleanups[c].pc = "done"

\* the teardown closure of mobile acquisition m has run to its end
MobileClosureSettled(m) ==
  \E k \in 1..Len(closures) :
     closures[k].kind = "mobile" /\ closures[k].ref = m /\ Settled(k)

\* C1: cleanup() invokes the teardown closures last acquired first: of two
\* closures that were in the ledger together, the one pushed later is invoked
\* first; a cleanup() call starts a closure only once the closure it started
\* before has settled; and when it returns, every closure pushed before the
\* call has been invoked.
C1_ReverseOrder ==
  /\ \A i, j \in 1..Len(startLog) :
       i < j => \/ startLog[j].id < startLog[i].id
                \/ startLog[j].id > startLog[i].pushed
  /\ \A i, j \in 1..Len(startLog) :
       (i < j /\ startLog[i].by = startLog[j].by) => Settled(startLog[i].id)
  /\ \A c \in 1..Len(cleanups) :
       cleanups[c].pc = "done" =>
         \A k \in 1..cleanups[c].snap : closures[k].st # "ledger"

\* C1 witness: a mobile then a web acquisition, torn down web first
C1_Witness ==
  /\ Len(startLog) = 2
  /\ startLog[1].id = 2 /\ startLog[2].id = 1 /\ startLog[1].pushed = 2
  /\ closures[1].kind = "mobile" /\ closures[2].kind = "web"
  /\ Settled(1) /\ Settled(2)
  /\ FixtureDone

\* cleanup() call c returns in this step
Returns(c) ==
  /\ cleanups'[c].pc = "done"
  /\ c <= Len(cleanups) => cleanups[c].pc # "done"

\* cleanup() call c leaves its closure loop for its Provider pass in this step
EntersProviderPass(c) ==
  /\ cleanups'[c].pc \in {"awaitProv", "done"}
  /\ c <= Len(cleanups) => cleanups[c].pc \notin {"awaitProv", "done"}

\* every Provider a session has been requested from has had cleanup() invoked
UsedProvidersCleaned ==
  \A p \in 1..Len(provObjs) :
     provObjs[p].driverCalls >= 1 => provObjs[p].cleanupCalls >= 1

\* C2: no cleanup() call raises, and when one returns every closure pushed
\* before the call has been invoked and every Provider used so far has had
\* its cleanup() invoked, whatever the closures and the Providers' cleanup()
\* do.
C2_BestEffortCleanup ==
  [][\A c \in 1..Len(cleanups') :
       /\ cleanups'[c].pc # "raised"
       /\ Returns(c) =>
            /\ \A k \in 1..cleanups'[c].snap : closures'[k].st # "ledger"
            /\ UsedProvidersCleaned']_vars

\* C3: when a cleanup() call returns, cleanup() has been invoked on every
\* Provider used so far, and when it enters its Provider pass every closure
\* of the ledger has been invoked and has settled.
C3_ProvidersAfterLedger ==
  [][\A c \in 1..Len(cleanups') :
       /\ EntersProviderPass(c) =>
            /\ resources' = <<>>
            /\ \A k \in 1..Len(closures') : closures'[k].st \in Outcomes
       /\ Returns(c) => UsedProvidersCleaned']_vars

\* C4: the driver of a mobile acquisition has deleteSession invoked at most
\* once, and exactly once when its teardown closure has run.
C4_DeleteSessionOnce ==
  \A m \in 1..Len(mobiles) :
    /\ mobiles[m].deleteCalls <= 1
    /\ MobileClosureSettled(m) => mobiles[m].deleteCalls = 1

\* C5: no Provider instance has its cleanup() invoked more than once.
C5_ProviderCleanupOnce ==
  \A p \in 1..Len(provObjs) : provObjs[p].cleanupCalls <= 1

\* the Provider.init() calls that rejected
InitFailures == Cardinality({t \in 1..Len(ops) : ops[t].pc = "initFailed"})

C7_InitOnceOverlapping ==
  (Len(ops) >= 1 /\ InitFailures = 0) => provider.initCalls = 1

\* C8: within one fixture at most one Provider is constructed per provider
\* name, and once the fixture's cleanup has returned with no call left in
\* flight every constructed Provider has had cleanup() invoked.
C8_OneProviderPerName ==
  /\ \A p, q \in 1..Len(provObjs) : provObjs[p].name = provObjs[q].name => p = q
  /\ (FixtureDone /\ \A t \in 1..Len(tasks) : tasks[t].pc \in {"done", "failed"}) =>
       \A p \in 1..Len(provObjs) : provObjs[p].cleanupCalls >= 1

\* two configured names are the same name, compared case-insensitively
SameConfiguredName(a, b) ==
  toLowerCase(NameOrLocal(a)) = toLowerCase(NameOrLocal(b))

\* C9: two getProvider() calls return the same instance exactly when their
\* configured names are equal ignoring case, and at most one call made under
\* a name wrote the cache entry of that name.
C9_OneInstancePerName ==
  /\ \A i, j \in 1..Len(gets) :
       SameConfiguredName(gets[i].cfg, gets[j].cfg) <=> gets[i].inst = gets[j].inst
  /\ \A i, j \in 1..Len(gets) :
       (gets[i].wrote /\ gets[j].wrote /\ SameConfiguredName(gets[i].cfg, gets[j].cfg))
         => i = j

\* C9 witness: "local", then "LOCAL" served from the cache, then "sauce"
C9_Witness ==
  /\ Len(gets) = 3
  /\ gets[1].cfg = Str_local /\ gets[1].wrote
  /\ gets[2].cfg = <<"L", "O", "C", "A", "L">> /\ ~gets[2].wrote
  /\ gets[2].inst = gets[1].inst
  /\ gets[3].cfg = Str_sauce /\ gets[3].inst # gets[1].inst

\* C10: the session never disposes an ApiClient the caller constructed; every
\* client it constructed itself is on the ledger, and has been disposed when a
\* cleanup() called after its construction returns.
C10_OwnedClientsDisposed ==
  /\ \A i \in 1..Len(clients) :
       clients[i].owner = "caller" => clients[i].disposeCalls = 0
  /\ \A i \in 1..Len(clients) :
       clients[i].owner = "session" =>
         \E k \in 1..Len(closures) : closures[k].kind = "api" /\ closures[k].ref = i
  /\ \A c \in 1..Len(cleanups) :
       cleanups[c].pc = "done" =>
         \A k \in 1..cleanups[c].snap :
            closures[k].kind = "api" => clients[closures[k].ref].disposeCalls >= 1

\* C10 witness: apiSend with a caller's client and a session.api client, after
\* the fixture's cleanup
C10_Witness ==
  /\ FixtureDone
  /\ \E i, j \in 1..Len(clients) :
       /\ clients[i].owner = "caller" /\ clients[i].disposeCalls = 0
       /\ clients[j].owner = "session" /\ clients[j].disposeCalls = 1

(* ----------------------------- ApiClient ------------------------------ *)
\* dispose() call d has returned or raised
DisposeFinished(d) == disposes[d].pc \in {"returned", "raised"}

\* the contexts on which dispose() call d has called ctx.dispose()
Attempted(d) == {disposes[d].attempts[i].ctx : i \in 1..Len(disposes[d].attempts)}

\* the attempts of dispose() call d whose ctx.dispose() rejected
FailedAttempts(d) ==
  {i \in 1..Len(disposes[d].attempts) : disposes[d].attempts[i].o = "threw"}

\* C11: at every point of any run of verb and dispose() calls, the tracked
\* set holds exactly the contexts the client created itself since
\* _ownedContexts was last cleared by a dispose(); the caller's context is
\* never in the set and the client never calls dispose() on it.
C11_TrackedSetIsOwnCreations ==
  /\ SetValues(ownedContexts) =
       {c \in 1..Len(contexts) : contexts[c].by = "client" /\ contexts[c].epoch = epoch}
  /\ \A c \in 1..Len(contexts) :
       contexts[c].by = "caller" =>
         c \notin SetValues(ownedContexts) /\ contexts[c].disposeCalls = 0

\* a dispose() has finished, a context created after it is tracked, and a
\* verb call has completed on the caller's context
C11_Witness ==
  /\ \E d \in 1..Len(disposes) : DisposeFinished(d) /\ disposes[d].attempts # <<>>
  /\ SetValues(ownedContexts) # {} /\ epoch >= 1
  /\ \E t \in 1..Len(verbs) : verbs[t].ctx = 1 /\ verbs[t].pc = "settled"

C13_RaisesIffSomeCloseFailed ==
  \A d \in 1..Len(disposes) :
     DisposeFinished(d) =>
       /\ disposes[d].pc = "raised" <=> FailedAttempts(d) # {}
       /\ Len(disposes[d].errors) = Cardinality(FailedAttempts(d))
       /\ \A i \in FailedAttempts(d) :
            Cardinality({j \in 1..Len(disposes[d].errors) :
                           disposes[d].errors[j] = disposes[d].attempts[i].ctx}) = 1
       /\ \A j, k \in 1..Len(disposes[d].errors) :
            j < k => \E i1, i2 \in FailedAttempts(d) :
                        /\ i1 < i2
                        /\ disposes[d].attempts[i1].ctx = disposes[d].errors[j]
                        /\ disposes[d].attempts[i2].ctx = disposes[d].errors[k]

\* two tracked contexts, one of which failed to close: dispose() raised
\* with one entry, and ctx.dispose() was called on the other context too
C13_Witness ==
  \E d \in 1..Len(disposes) :
     /\ disposes[d].pc = "raised"
     /\ Len(disposes[d].attempts) = 2 /\ Len(disposes[d].errors) = 1
     /\ \A c \in disposes[d].start : contexts[c].disposeCalls >= 1
     /\ Cardinality(disposes[d].start) = 2

(* ------------------------------ adapters ------------------------------ *)
\* the latest call on the adapter was execute() or navigate()
LastUsesEngine == last.op \in {"execute", "navigate"}

\* the actions the adapter of class c documents as supported
Vocabulary(c) == IF c = "PlaywrightAdapter" THEN PlaywrightActions ELSE AppiumActions

\* a bind() argument that lacks a required sub-handle
LacksSubHandle(session) == session \in {"none", "pageNoBrowser", "contextNoBrowser"}

\* C14: teardown() of either adapter returns normally, whatever handles the
\* adapter holds (none, open ones, ones already closed) and however closing
\* them settles.
C14_TeardownNeverRaises ==
  last.op = "teardown" => last.result = "returned"

\* a teardown() during which closing a handle failed
C14_Witness ==
  /\ last.op = "teardown"
  /\ \E i \in 1..Len(last.handleOps) : last.handleOps[i].o = "threw"

\* C15: a teardown() called after a teardown() of a bound adapter has
\* returned, with no init() or bind() in between, invokes no operation on
\* any engine handle.
C15_SecondTeardownNoOp ==
  (last.op = "teardown" /\ last.hist.tornBound) => last.handleOps = <<>>

\* C16: PlaywrightAdapter.teardown() calls close() on the page, the context
\* and the browser the adapter holds, in that order, whatever the outcome
\* of each close().
C16_ClosesPageContextBrowser ==
  (last.op = "teardown" /\ last.pre.class = "PlaywrightAdapter") =>
     LET Held(h) == last.pre[h] # "unset"
         held == SelectSeq(TeardownOrder, Held)
     IN /\ Len(last.handleOps) = Len(held)
        /\ \A i \in 1..Len(held) :
             last.handleOps[i].h = held[i] /\ last.handleOps[i].op = "close"

\* a teardown() of a bound PlaywrightAdapter whose page failed to close
C16_Witness ==
  /\ last.op = "teardown" /\ last.pre.class = "PlaywrightAdapter"
  /\ HoldsSession(last.pre)
  /\ Len(last.handleOps) = 3 /\ last.handleOps[1].o = "threw"

\* C17: on an adapter on which neither init() nor bind() has been called,
\* execute(), for every action name, and navigate() raise the not-started
\* error and invoke no operation on an engine handle.
C17_UnboundAdapterRejects ==
  (LastUsesEngine /\ last.hist.fresh) =>
     last.result = "notStarted" /\ last.handleOps = <<>>

\* execute() of an action of the adapter's vocabulary on a fresh adapter
C17_Witness ==
  /\ last.op = "execute" /\ last.hist.fresh
  /\ last.action \in Vocabulary(last.pre.class) /\ last.arg = "given"

\* C18: an execute() or navigate() called after a teardown() has returned,
\* with no init() or bind() in between, raises the not-started error and
\* invokes no operation on an engine handle.
C18_TornDownAdapterRejects ==
  (LastUsesEngine /\ last.hist.torn) =>
     last.result = "notStarted" /\ last.handleOps = <<>>

\* C19: execute() on a bound adapter with an action outside the adapter's
\* vocabulary raises the unsupported-action error and invokes no operation
\* on an engine handle.
C19_UnsupportedActionRaises ==
  (last.op = "execute" /\ HoldsSession(last.pre)
     /\ last.action \notin Vocabulary(last.pre.class)) =>
     last.result = "unsupported" /\ last.handleOps = <<>>

\* execute() of an action of the other adapter's vocabulary on a bound adapter
C19_Witness ==
  /\ last.op = "execute" /\ HoldsSession(last.pre)
  /\ last.action \notin Vocabulary(last.pre.class)
  /\ last.action \in PlaywrightActions \cup AppiumActions
  /\ last.arg = "given"

\* C20: bind() with an argument that lacks a required sub-handle raises,
\* and an adapter that was not bound before it is not bound after it.
C20_BadBindLeavesUnbound ==
  (last.op = "bind" /\ LacksSubHandle(last.arg)) =>
     /\ last.result = "shape"
     /\ ~HoldsSession(last.pre) => ~HoldsSession(adapter)

\* C21: on an AppiumAdapter bound to a session, after a navigate(url) that
\* returned, execute("title") does not raise the unsupported-action error:
\* it asks the driver for the title.
C21_AppiumTitleSupported ==
  (last.op = "execute" /\ last.action = "title"
     /\ last.pre.class = "AppiumAdapter" /\ HoldsSession(last.pre)
     /\ last.hist.navigated) =>
     /\ last.result # "unsupported"
     /\ last.handleOps # <<>>

\* a handle the adapter holds that has not been closed
HoldsLiveHandle(a) ==
  \E h \in {"page", "context", "browser", "driver"} : a[h] \in {"open", "detached"}

\* C30: init() or bind() on an adapter that is bound to a session it has not
\* torn down does not replace the handles the adapter holds.
C30_BoundAdapterKeepsItsSession ==
  (last.op \in {"init", "bind"} /\ HoldsSession(last.pre) /\ HoldsLiveHandle(last.pre)) =>
     adapter.since = last.pre.since

\* C28: whenever Provider.getMobileDriver() or Provider.cleanup() has been
\* called through the Broker, a Provider.init() call had completed before
\* the first of them started, whichever operation came first and whether
\* or not operations overlapped.
C28_InitBeforeProviderCalls ==
  provider.driverCalls + provider.cleanupCalls > 0 => provider.initDone >= 1

\* cleanup() was the first operation on the Broker, another operation was
\* invoked while it was suspended, and both reached the Provider
C28_Witness ==
  /\ Len(ops) >= 2 /\ ops[1].op = "cleanup" /\ overlapped
  /\ provider.cleanupCalls >= 1 /\ provider.driverCalls >= 1

\* C29: in the session fixture, provider.releaseDriver() is called for a
\* mobile acquisition only after adapter.teardown() has been called on its
\* adapter and has settled, and a closure that has run to its end has
\* called both, each once.
C29_TeardownBeforeRelease ==
  /\ \A m \in 1..Len(mobiles) :
       mobiles[m].released >= 1 => mobiles[m].tornDown >= 1 /\ ~mobiles[m].bound
  /\ \A k \in 1..Len(closures) :
       (closures[k].kind = "mobile" /\ closures[k].st = "ok") =>
          mobiles[closures[k].ref].tornDown = 1 /\ mobiles[closures[k].ref].released = 1

\* cleanup has returned after running the closure of a mobile acquisition
C29_Witness ==
  /\ \E k \in 1..Len(closures) : closures[k].kind = "mobile" /\ closures[k].st = "ok"
  /\ \E c \in 1..Len(cleanups) : cleanups[c].pc = "done"

(* ------------------------------ providers ----------------------------- *)
\* the getMobileDriver() calls of the providers that merge vendor defaults
VendorCalls == {i \in 1..Len(acquired) : VendorNamespace(acquired[i].class) # ""}

\* what the caller set under the provider's namespace before the call
CallerOptions(r) ==
  IF isRecord(r.input.v) /\ isRecord(Get(r.input.v.obj, VendorNamespace(r.class)))
  THEN Get(r.input.v.obj, VendorNamespace(r.class)).obj
  ELSE NoProps

\* C23: in the getMobileDriver of the BrowserStack and Sauce Labs providers the
\* capabilities passed on hold, under the vendor namespace, the caller's value
\* for every key the caller set there and the default for every other default
\* key, and nothing else; merging the same defaults a second time changes
\* nothing.
C23_VendorDefaultsKeepCallerValues ==
  \A i \in VendorCalls :
    LET r        == acquired[i]
        caller   == CallerOptions(r)
        defaults == VendorDefaults(r.class, r.platform, r.flag)
        result   == Get(r.capabilities, VendorNamespace(r.class))
    IN  /\ isRecord(result)
        /\ DOMAIN result.obj = DOMAIN caller \cup DOMAIN defaults
        /\ \A k \in DOMAIN caller : result.obj[k] = caller[k]
        /\ \A k \in DOMAIN defaults \ DOMAIN caller : result.obj[k] = defaults[k]
        /\ r.again = r.capabilities

C23_Witness ==
  \E i \in VendorCalls :
    LET r        == acquired[i]
        caller   == CallerOptions(r)
        defaults == VendorDefaults(r.class, r.platform, r.flag)
    IN  /\ \E k \in DOMAIN caller \cap DOMAIN defaults : caller[k] # defaults[k]
        /\ DOMAIN defaults \ DOMAIN caller # {}
        /\ DOMAIN caller \ DOMAIN defaults # {}
        /\ r.class = "BrowserStackProvider"
        /\ \E j \in VendorCalls : acquired[j].class = "SauceLabsProvider"

\* the local provider was handed the capabilities built by
\* android().udid(X).platformVersion("15.0").build()
LocalTestCalls ==
  {i \in 1..Len(acquired) :
     /\ acquired[i].class = "LocalProvider"
     /\ acquired[i].input = Frozen(ObjV(LocalTestCaps))}

\* C25: when the capabilities built by android().udid(X).platformVersion("15.0")
\* .build() go to the local provider's getMobileDriver, the capabilities passed
\* to the session-opening call hold appium:udid = X, appium:platformVersion =
\* "15.0" and platformName = "Android".
C25_LocalCapabilitiesReachRemote ==
  \A i \in LocalTestCalls :
    /\ Get(acquired[i].capabilities, "appium:udid") = StrV(Str_X)
    /\ Get(acquired[i].capabilities, "appium:platformVersion") = StrV(Str_15_0)
    /\ Get(acquired[i].capabilities, "platformName") = StrV(Str_Android)

C25_Witness == LocalTestCalls # {}

\* the platform name of an input: the string under platformName, else the
\* string under appium:platformName, else none
NameFound(input) ==
  LET v == AsValue(input)
  IN  IF ~isRecord(v) THEN UndefV
      ELSE IF Get(v.obj, "platformName").kind = "str" THEN Get(v.obj, "platformName")
      ELSE IF Get(v.obj, "appium:platformName").kind = "str"
           THEN Get(v.obj, "appium:platformName")
      ELSE UndefV

\* the three letters i, o, s in any letter case
IsIosAnyCase(name) ==
  /\ Len(name) = 3
  /\ name[1] \in {"i", "I"} /\ name[2] \in {"o", "O"} /\ name[3] \in {"s", "S"}

\* the name has those three letters somewhere in it
MentionsIos(name) ==
  \E i \in 1..Len(name) : i + 2 <= Len(name) /\ IsIosAnyCase(SubSeq(name, i, i + 2))

\* C26: detectPlatformFromCaps answers android or ios for every input: ios
\* when the platform name found is "iOS" in any letter case, android when no
\* platform name is found or the name found does not mention iOS.
C26_DetectPlatformTotal ==
  \A i \in 1..Len(acquired) :
    LET r == acquired[i]
        name == NameFound(r.input)
    IN  /\ r.platform \in {"android", "ios"}
        /\ (name.kind = "str" /\ IsIosAnyCase(name.s)) => r.platform = "ios"
        /\ name.kind # "str" => r.platform = "android"
        /\ (name.kind = "str" /\ ~MentionsIos(name.s)) => r.platform = "android"

C26_Witness ==
  /\ Len(acquired) = 2
  /\ NameFound(acquired[1].input).kind = "str"
  /\ IsIosAnyCase(NameFound(acquired[1].input).s)
  /\ NameFound(acquired[1].input).s # Str_ios
  /\ Get(AsValue(acquired[1].input).obj, "platformName").kind # "str"
  /\ NameFound(acquired[2].input).kind # "str"

\* C27: releaseDriver(handle) calls the handle's deleteSession exactly once
\* when the handle has that function; for a missing handle or one without a
\* deleteSession function it calls nothing and returns normally.
C27_ReleaseDriverGuarded ==
  \A i \in 1..Len(released) :
    IF released[i].handle = "driver"
    THEN released[i].deleteCalls = 1
    ELSE released[i].deleteCalls = 0 /\ released[i].result = "returned"

C27_Witness ==
  /\ Len(released) = 2
  /\ released[1].handle = "driver" /\ released[1].deleteCalls = 1
  /\ released[2].handle \in {"undefined", "plainObject"}
  /\ released[2].result = "returned"

(* -------------------------- CapabilityBuilder ------------------------- *)
\* the object under ns before the last call, {} when there was none
ExistingUnder(ns) ==
  IF isRecord(Get(capsLast.before, ns)) THEN Get(capsLast.before, ns).obj ELSE NoProps

\* C22: after vendor(ns, obj) the object under ns holds every key that was
\* there with the value it had (so on a key that is also in obj the existing
\* value wins), every other key of obj with obj's value, and nothing else:
\* {a:1,b:2} merged where {a:9} was gives {a:9,b:2}.
C22_VendorKeepsExistingValues ==
  capsLast.op = "vendor" =>
    LET existing == ExistingUnder(capsLast.ns)
        now      == Get(Caps, capsLast.ns)
    IN  /\ isRecord(now)
        /\ DOMAIN now.obj = DOMAIN existing \cup DOMAIN capsLast.opts
        /\ \A k \in DOMAIN existing : now.obj[k] = existing[k]
        /\ \A k \in DOMAIN capsLast.opts \ DOMAIN existing : now.obj[k] = capsLast.opts[k]

\* C24: an object returned by build() keeps the properties it was returned
\* with, whatever is called on the builder or assigned to the object
\* afterwards; an object returned by buildMutable() holds what it was returned
\* with and what its holder assigned to it since, and such an assignment leaves
\* the builder's caps, and every other returned object, as they were.
C24_BuiltNeverMutated ==
  /\ \A r \in 1..Len(results) :
       results[r].via = "build" => objects[results[r].ref].props = results[r].first
  /\ \A r \in 1..Len(results) :
       results[r].via = "buildMutable" => objects[results[r].ref].props = results[r].expect
  /\ capsLast.op = "modify" => Caps = capsLast.before

C24_Witness ==
  /\ capsLast.op = "modify"
  /\ \E r1, r2 \in 1..Len(results) :
       /\ r1 < r2
       /\ results[r1].via = "build" /\ results[r1].first # Caps
       /\ results[r2].via = "buildMutable" /\ capsLast.target = r2
       /\ results[r2].expect # results[r2].first

\* C31: every close() PlaywrightAdapter.teardown() makes is on a handle the
\* adapter opened itself, in init() or while binding; a page, context or
\* browser the caller passed to bind() gets no close() from teardown().
C31_TeardownClosesOnlyOwn ==
  (last.op = "teardown" /\ last.pre.class = "PlaywrightAdapter") =>
     \A i \in 1..Len(last.handleOps) : last.handleOps[i].h \in last.pre.owned

(* --------------------------- session fixture -------------------------- *)
\* the fixture has finished: its final cleanup() has returned and no
\* session.web or session.mobile call is still in flight
FixtureFinished ==
  /\ FixtureDone
  /\ \A t \in 1..Len(tasks) : tasks[t].pc \in {"done", "failed"}

\* how many times cleanup() has invoked closure k
Invocations(k) == Cardinality({i \in 1..Len(startLog) : startLog[i].id = k})

\* C32: no closure pushed on the ledger is invoked more than once, whatever
\* the number of cleanup() calls; once the fixture has finished every closure
\* pushed has been invoked exactly once; and the ledger is empty at the moment
\* a cleanup() call returns.
C32_EachClosureOnce ==
  /\ [](\A k \in 1..Len(closures) : Invocations(k) <= 1)
  /\ [](FixtureFinished => \A k \in 1..Len(closures) : Invocations(k) = 1)
  /\ [][\A c \in 1..Len(cleanups') : Returns(c) => resources' = <<>>]_vars

\* C33: once the fixture has finished, no browser launched by session.web()
\* is still open, whether adapter.init() went through or failed after the
\* launch.
C33_LaunchedBrowsersClosed ==
  FixtureFinished => \A w \in 1..Len(webs) : webs[w].browser # "open"

\* C34: once the fixture has finished, every acquisition that succeeded has
\* been released: each mobile session has had its adapter torn down and its
\* release requested, and each adapter session.web() returned has been torn
\* down.
C34_AcquiredIsReleased ==
  FixtureFinished =>
     /\ \A m \in 1..Len(mobiles) : mobiles[m].tornDown >= 1 /\ mobiles[m].released >= 1
     /\ \A w \in 1..Len(webs) : webs[w].page # "open"

(* ----------------------------- DeviceBroker --------------------------- *)
\* operation u is the first one invoked after an init() call rejected
FollowsInitFailure(u) ==
  ops[u].failsBefore > (IF u = 1 THEN 0 ELSE ops[u - 1].failsBefore)

\* C35: an operation whose Provider.init() rejected has rejected without
\* making its provider call, the Broker was not initialised when it rejected,
\* and the next operation invoked calls Provider.init() again.
C35_FailedInitLeavesUninitialised ==
  /\ \A t \in 1..Len(ops) :
       ops[t].pc = "initFailed" => ~ops[t].called /\ ~ops[t].flagAt
  /\ \A u \in 1..Len(ops) : FollowsInitFailure(u) => ops[u].inited

(* ---------------------------- ProviderFactory ------------------------- *)
\* C36: every entry of the ProviderFactory cache has as its key the `name` of
\* the Provider it holds, and no two entries hold Providers of the same name
\* (that is, of the same class).
C36_CacheKeyIsProviderName ==
  /\ \A i \in 1..Len(instances) : instances[i].key = NameOf(made[instances[i].inst])
  /\ \A i, j \in 1..Len(instances) :
       made[instances[i].inst] = made[instances[j].inst] => i = j

\* the getMobileDriver() calls that were handed the capabilities of
\* CapabilityBuilder.ios(), in whichever shape
IosCalls == {i \in 1..Len(acquired) : acquired[i].input.v = ObjV(ios)}

\* C37: handed the same iOS capabilities as a raw object, as a frozen
\* capability set or as a CapabilityBuilder, a provider's getMobileDriver
\* detects ios each time and passes on the same vendor options, with the iOS
\* session name among the defaults.
C37_SameResultForEveryShape ==
  /\ \A i \in IosCalls :
       /\ acquired[i].platform = "ios"
       /\ acquired[i].class = "BrowserStackProvider" =>
            Get(Get(acquired[i].capabilities, "bstack:options").obj, "sessionName")
              = StrV(Str_iOS_Mobile_Test)
  /\ \A i, j \in IosCalls :
       (acquired[i].class = acquired[j].class /\ acquired[i].flag = acquired[j].flag) =>
          acquired[i].capabilities = acquired[j].capabilities

\* C38: getMobileDriver() leaves what it was handed as it was: the raw
\* object or frozen set holds, and the CapabilityBuilder builds, the same keys
\* and values after the call as before it.
C38_InputUnchanged ==
  \A i \in 1..Len(acquired) : acquired[i].inputAfter = acquired[i].input.v

(* ------------------------------ ApiClient ----------------------------- *)
\* C39: however verb calls interleave with a dispose() call, a context the
\* client created leaves the tracked set only after a dispose() call has
\* called dispose() on it.
C39_NoContextDroppedUnattempted ==
  \A c \in 1..Len(contexts) :
    (contexts[c].by = "client" /\ c \notin SetValues(ownedContexts)) =>
       contexts[c].disposeCalls >= 1

\* a dispose() call that was suspended on one context when a verb call added
\* another, went on to that one too, and has cleared the set
C39_Witness ==
  \E d \in 1..Len(disposes), c \in 1..Len(contexts) :
    /\ disposes[d].pc \in {"returned", "raised"}
    /\ disposes[d].start # {}
    /\ contexts[c].by = "client" /\ c \notin disposes[d].start
    /\ \E i \in 1..Len(disposes[d].attempts) : disposes[d].attempts[i].ctx = c
    /\ c \notin SetValues(ownedContexts)

(* ---------------------------- RequestBuilder -------------------------- *)
\* C40: whatever calls were chained before it, the options of a built request
\* carry at most one of data, json, form, multipart.
C40_AtMostOneBody ==
  built.method # "none" => Cardinality(built.options \cap BodyFields) <= 1

============================================================================
